---- MODULE Spec2Model ----
(***************************************************************************)
(* PMD Java rules catalogue: the XML-to-data converter (Extractor, Rule    *)
(* Parser, Catalogue Builder), the Tier Annotator (add_tiers) and the      *)
(* data they exchange through rules_data.js.                               *)
(*                                                                         *)
(* Text is modelled at the granularity the regular expressions of the      *)
(* source distinguish:                                                     *)
(*   - an XML document is a sequence of tokens: the tags <ruleset ..>,     *)
(*     <rule ..>, </rule>, <property ..>, </property> and the complete     *)
(*     leaf elements <description>, <priority>, <example>, <value>;        *)
(*   - the text of a leaf element is a sequence of characters, in which    *)
(*     a CDATA marker is one element;                                      *)
(*   - an attribute value is an atomic string; the values in GtValues      *)
(*     contain the character '>'.                                          *)
(* Leaf text and attribute values other than GtValues hold no markup.      *)
(***************************************************************************)
EXTENDS Integers, Sequences, FiniteSets, TLC

VARIABLES
    xml,        \* Rule Parser harness: the document text given to parseXmlFile
    category,   \* Rule Parser harness: the category tag given to parseXmlFile
    parsed,     \* Rule Parser harness: the value parseXmlFile returned
    parserPc,   \* Rule Parser harness: "input" before the call, "done" after
    resources,  \* the resources directory: file name -> document (or NoFile)
    rulesData,  \* the text of rules_data.js on disk (or NoFile)
    run,        \* the script that is running: "none", "build", "annotate"
    files,      \* Catalogue Builder: files of the directory listing not yet visited
    allRules,   \* Catalogue Builder: records accumulated so far
    rules,      \* Tier Annotator: the parsed record sequence
    exitCode,   \* exit status of the last finished run (-1: no run finished yet)
    lastRun,    \* history: which script the last finished run was
    readData,   \* history: the text of rules_data.js when the current/last run began
    writes,     \* history: number of writeFileSync calls of the current/last run
    writer,     \* history: the script that wrote the text now in rules_data.js
    readWriter, \* history: the script that had written readData
    listing,    \* history: the directory listing of the current/last build
    RULES_DATA,        \* Viewer: the global that rules_data.js defines (or not)
    viewerRules,       \* Viewer: rules (app.js:4)
    filteredRules,     \* Viewer: filteredRules (app.js:5)
    selectedRuleName,  \* Viewer: selectedRuleName (app.js:6)
    currentPage,       \* Viewer: currentPage (app.js:7)
    checkedCategories, \* Viewer: data-category of the checked checkboxes
    checkedPriorities, \* Viewer: data-priority of the checked checkboxes
    searchValue,       \* Viewer: searchInput.value
    listening,         \* Viewer: setupFilters has registered the listeners
    timeout,           \* Viewer: the timer id held by the debounce closure
    timers,            \* Viewer: pending timers of the page: id -> ms left
    timerSeq,          \* Viewer: number of timers created so far
    rulesGrid,         \* Viewer: content of #rulesGrid
    pagination,        \* Viewer: content of #pagination and its closure
    ruleDetail,        \* Viewer: content of #ruleDetail
    viewerPc,          \* Viewer: "start", then "ready" or "failed" after loadRules
    debounceLog,       \* history of the current burst of search keystrokes
    navigatedTo        \* history: the page of the last page change by a click,
                       \* 0 after any later keystroke or checkbox change

parserVars == <<xml, category, parsed, parserPc>>
pipeVars == <<resources, rulesData, run, files, allRules, rules, exitCode,
              lastRun, readData, writes, writer, readWriter, listing>>
viewerVars == <<RULES_DATA, viewerRules, filteredRules, selectedRuleName, currentPage,
                checkedCategories, checkedPriorities, searchValue, listening,
                timeout, timers, timerSeq, rulesGrid, pagination, ruleDetail,
                viewerPc, debounceLog, navigatedTo>>
vars == <<xml, category, parsed, parserPc, resources, rulesData, run, files,
          allRules, rules, exitCode, lastRun, readData, writes, writer, readWriter,
          listing, RULES_DATA, viewerRules, filteredRules, selectedRuleName,
          currentPage, checkedCategories, checkedPriorities, searchValue, listening,
          timeout, timers, timerSeq, rulesGrid, pagination, ruleDetail, viewerPc,
          debounceLog, navigatedTo>>

(***************************************************************************)
(* Bounds of the model                                                     *)
(***************************************************************************)
\* longest <priority> text, in characters
MaxPriLen == 2
\* most <rule> elements in a document of the parser harness
MaxRules == 2
\* most <property> elements in a rule body of the parser harness
MaxProps == 2
\* most <rule> elements in a file of the resources directory
MaxFileRules == 2

(***************************************************************************)
(* Sequences                                                               *)
(***************************************************************************)
\* all sequences over S of length at most n
SeqsUpTo(S, n) == UNION {[1..k -> S] : k \in 0..n}

\* least index i >= from with P(s[i]), or 0
FirstFrom(s, from, P(_)) ==
    IF \E i \in from..Len(s) : P(s[i])
    THEN CHOOSE i \in from..Len(s) : P(s[i]) /\ \A k \in from..(i-1) : ~P(s[k])
    ELSE 0

\* the sequence f(s[1]), ..., f(s[n])
MapSeq(s, f(_)) == [i \in 1..Len(s) |-> f(s[i])]

RECURSIVE Concat(_)
\* concatenation of a sequence of sequences
Concat(ss) == IF ss = <<>> THEN <<>> ELSE Head(ss) \o Concat(Tail(ss))

(***************************************************************************)
(* JavaScript values                                                       *)
(*   string  : a TLA+ string, or a sequence of characters for element text *)
(*   number  : an integer; PosInf and NegInf are the IEEE infinities; NaN  *)
(*   object  : a sequence of [k, v] entries in insertion order             *)
(***************************************************************************)
PosInf == 10 ^ 9
NegInf == 0 - PosInf
NaN == 0 - (10 ^ 9 + 1)
IsFinite(n) == n # PosInf /\ n # NegInf /\ n # NaN

Has(obj, key) == \E i \in 1..Len(obj) : obj[i].k = key
Get(obj, key) == obj[CHOOSE i \in 1..Len(obj) : obj[i].k = key].v
\* mutant of SetField: the assignment always adds a member
SetFieldAppend(obj, key, val) == Append(obj, [k |-> key, v |-> val])

\* obj[key] = val: an existing key keeps its place, a new key is appended
SetField(obj, key, val) ==
    IF Has(obj, key)
    THEN [i \in 1..Len(obj) |-> IF obj[i].k = key THEN [k |-> key, v |-> val] ELSE obj[i]]
    ELSE Append(obj, [k |-> key, v |-> val])

(***************************************************************************)
(* Text: String.prototype.trim, stripCdata, parseInt                       *)
(***************************************************************************)
CdataOpen == "<![CDATA["
CdataClose == "]]>"
\* a run of 400 decimal digits '9', held as one element of a text
Nines400 == "9{400}"
WhiteSpace == {" ", "\n", "\t"}

RECURSIVE TrimLeft(_)
TrimLeft(text) ==
    IF text # <<>> /\ Head(text) \in WhiteSpace THEN TrimLeft(Tail(text)) ELSE text

RECURSIVE TrimRight(_)
TrimRight(text) ==
    IF text # <<>> /\ text[Len(text)] \in WhiteSpace
    THEN TrimRight(SubSeq(text, 1, Len(text) - 1))
    ELSE text

Trim(text) == TrimRight(TrimLeft(text))

stripCdata(text) == SelectSeq(text, LAMBDA c : c # CdataOpen /\ c # CdataClose)

DecDigits == <<"0", "1", "2", "3", "4", "5", "6", "7", "8", "9">>
HexLetters == <<"a", "b", "c", "d", "e", "f">>
HexCapitals == <<"A", "B", "C", "D", "E", "F">>
IndexOf(s, c) == IF \E i \in 1..Len(s) : s[i] = c
                 THEN CHOOSE i \in 1..Len(s) : s[i] = c ELSE 0

IsDigit(c, radix) ==
    \/ c = Nines400
    \/ IndexOf(DecDigits, c) # 0
    \/ radix = 16 /\ (IndexOf(HexLetters, c) # 0 \/ IndexOf(HexCapitals, c) # 0)

DigitVal(c) ==
    IF IndexOf(DecDigits, c) # 0 THEN IndexOf(DecDigits, c) - 1
    ELSE IF IndexOf(HexLetters, c) # 0 THEN IndexOf(HexLetters, c) + 9
    ELSE IndexOf(HexCapitals, c) + 9

\* the longest prefix of text made of digits of the radix
DigitPrefix(text, radix) ==
    LET stop == FirstFrom(text, 1, LAMBDA c : ~IsDigit(c, radix))
    IN  IF stop = 0 THEN text ELSE SubSeq(text, 1, stop - 1)

RECURSIVE Magnitude(_, _, _)
\* the value of a digit string; beyond the largest finite double it is Infinity
Magnitude(digits, radix, acc) ==
    IF digits = <<>> THEN acc
    ELSE IF Head(digits) = Nines400 THEN PosInf
    ELSE Magnitude(Tail(digits), radix, acc * radix + DigitVal(Head(digits)))

\* parseInt(string) with no radix argument
parseInt(text) ==
    LET s == TrimLeft(text)
        neg == s # <<>> /\ Head(s) = "-"
        unsigned == IF s # <<>> /\ Head(s) \in {"-", "+"} THEN Tail(s) ELSE s
        hex == Len(unsigned) >= 2 /\ unsigned[1] = "0" /\ unsigned[2] \in {"x", "X"}
        radix == IF hex THEN 16 ELSE 10
        body == IF hex THEN SubSeq(unsigned, 3, Len(unsigned)) ELSE unsigned
        digits == DigitPrefix(body, radix)
        mag == Magnitude(digits, radix, 0)
    IN  IF digits = <<>> THEN NaN
        ELSE IF neg THEN 0 - mag ELSE mag

\* x || d for a number x: NaN and 0 (and -0) are falsy
OrDefault(x, d) == IF x = NaN \/ x = 0 THEN d ELSE x

(***************************************************************************)
(* XML tokens                                                              *)
(***************************************************************************)
Attr(k, v) == [k |-> k, v |-> v]
RulesetTag(attrs) == [t |-> "ruleset", attrs |-> attrs]
RuleTag(attrs, self) == [t |-> "rule", attrs |-> attrs, self |-> self]
RuleEnd == [t |-> "/rule"]
PropertyTag(attrs, self) == [t |-> "property", attrs |-> attrs, self |-> self]
PropertyEnd == [t |-> "/property"]
Leaf(tag, text) == [t |-> "leaf", tag |-> tag, text |-> text]
\* <tag>text with no closing tag after it
Unclosed(tag, text) == [t |-> "open", tag |-> tag, text |-> text]

\* attribute values that contain the character '>'
GtValues == {"x > y"}

\* What [^>]* sees of a tag's attributes: the text up to the first '>'.  An
\* attribute whose value contains '>' is cut inside its value (no closing quote).
VisibleAttrs(attrs) ==
    LET g == FirstFrom(attrs, 1, LAMBDA a : a.v \in GtValues)
    IN  IF g = 0
        THEN [i \in 1..Len(attrs) |-> [k |-> attrs[i].k, v |-> attrs[i].v, closed |-> TRUE]]
        ELSE [i \in 1..g |-> [k |-> attrs[i].k, v |-> attrs[i].v, closed |-> i < g]]

(***************************************************************************)
(* Attribute/Element Extractor                                             *)
(***************************************************************************)
\* attrStr.match(new RegExp(name\s*=\s*"([^"]*)", 'i')); keys are held in the
\* spelling of the source, so the case-insensitive match is an equality
extractAttr(attrStr, name) ==
    LET i == FirstFrom(attrStr, 1, LAMBDA a : a.k = name /\ a.closed)
    IN  IF i = 0 THEN "" ELSE attrStr[i].v

\* the first <tag ...>text</tag> of the source, CDATA-stripped and trimmed
extractFirstElement(source, tag) ==
    LET i == FirstFrom(source, 1, LAMBDA x : x.t = "leaf" /\ x.tag = tag)
    IN  IF i = 0 THEN <<>> ELSE Trim(stripCdata(source[i].text))

extractExamples(source) ==
    LET leaves == SelectSeq(source, LAMBDA x : x.t = "leaf" /\ x.tag = "example")
        texts == MapSeq(leaves, LAMBDA x : Trim(stripCdata(x.text)))
    IN  SelectSeq(texts, LAMBDA ex : ex # <<>>)

\* an attribute value as a text: a sequence with the value as its one element
AsText(v) == IF v = "" THEN <<>> ELSE <<v>>

\* One exec of propRegex on src from position from:
\*   /<property\s+name="([^"]*)"[^>]*(?:\/>|>([\s\S]*?)<\/property>)/gi
\* The tag must have name as its first attribute.  [^>]* is greedy, so on a
\* self-closing tag it first takes the '/', and the second alternative then
\* runs to the next </property> when there is one; only when there is none
\* does the match back off to '/>'.  A block-form tag needs a </property>.
\* The result is [s, e, hasBody] (s = 0: no match).
PropMatchFrom(src, from) ==
    LET s == FirstFrom(src, from, LAMBDA x :
                    /\ x.t = "property"
                    /\ x.attrs # <<>>
                    /\ x.attrs[1].k = "name")
    IN  IF s = 0 THEN [s |-> 0, e |-> 0, hasBody |-> FALSE] ELSE
        LET close == FirstFrom(src, s + 1, LAMBDA x : x.t = "/property")
        IN  IF close # 0 THEN [s |-> s, e |-> close, hasBody |-> TRUE]
            ELSE \* no </property> follows: only self-closing tags still match
                LET s2 == FirstFrom(src, s, LAMBDA x :
                              /\ x.t = "property"
                              /\ x.attrs # <<>>
                              /\ x.attrs[1].k = "name"
                              /\ x.self)
                IN  IF s2 = 0 THEN [s |-> 0, e |-> 0, hasBody |-> FALSE]
                    ELSE [s |-> s2, e |-> s2, hasBody |-> FALSE]

\* the attributes of the tags of m[0], in text order
MatchedAttrs(src, m) ==
    LET last == IF m.hasBody THEN m.e - 1 ELSE m.e
        tags == SelectSeq(SubSeq(src, m.s, last),
                          LAMBDA x : x.t \in {"property", "rule", "ruleset"})
    IN  Concat(MapSeq(tags, LAMBDA x : x.attrs))

\* the descriptor pushed for one match of propRegex
PropDescriptor(src, m) ==
    LET name == src[m.s].attrs[1].v
        attrs == MatchedAttrs(src, m)
        defAttr == FirstFrom(attrs, 1, LAMBDA a : a.k = "value")
        inner == IF m.hasBody THEN SubSeq(src, m.s + 1, m.e - 1) ELSE <<>>
        valEl == FirstFrom(inner, 1, LAMBDA x : x.t = "leaf" /\ x.tag = "value")
        defaultVal ==
            IF defAttr # 0 THEN AsText(attrs[defAttr].v)
            ELSE IF inner # <<>> /\ valEl # 0 THEN Trim(stripCdata(inner[valEl].text))
            ELSE <<>>
        descAttr == FirstFrom(attrs, 1, LAMBDA a : a.k = "description")
    IN  << [k |-> "name", v |-> name],
           [k |-> "defaultValue", v |-> defaultVal],
           [k |-> "description", v |-> IF descAttr # 0 THEN attrs[descAttr].v ELSE ""] >>

RECURSIVE PropLoop(_, _)
\* the while loop of extractProperties from position from
PropLoop(src, from) ==
    LET m == PropMatchFrom(src, from)
    IN  IF m.s = 0 THEN <<>>
        ELSE IF src[m.s].attrs[1].v \in {"xpath", "version"}
             THEN PropLoop(src, m.e + 1)
             ELSE <<PropDescriptor(src, m)>> \o PropLoop(src, m.e + 1)

extractProperties(source) == PropLoop(source, 1)

(***************************************************************************)
(* Rule Parser                                                             *)
(***************************************************************************)
\* a tag on which /<rule\s+([^>]*?)>/ can start: <rule followed by white space
IsRuleStart(x) == x.t = "rule" /\ x.attrs # <<>>

\* One exec of ruleRegex on src from position from:
\*   /<rule\s+([^>]*?)>([\s\S]*?)<\/rule>/g
\* The opening tag ends at the first '>' (also that of a self-closing tag) and
\* the body runs to the next </rule>.  The result is [s, e] (s = 0: no match).
RuleMatchFrom(src, from) ==
    LET s == FirstFrom(src, from, IsRuleStart)
        e == IF s = 0 THEN 0 ELSE FirstFrom(src, s + 1, LAMBDA x : x.t = "/rule")
    IN  IF s = 0 \/ e = 0 THEN [s |-> 0, e |-> 0] ELSE [s |-> s, e |-> e]

RECURSIVE RuleMatches(_, _)
\* the matches of the while loop of parseXmlFile, in order
RuleMatches(src, from) ==
    LET m == RuleMatchFrom(src, from)
    IN  IF m.s = 0 THEN <<>> ELSE <<m>> \o RuleMatches(src, m.e + 1)

\* /\bref\s*=/.test(attrs)
IsReference(attrStr) == \E i \in 1..Len(attrStr) : attrStr[i].k = "ref"

BaseUrlToken == "${pmd.website.baseurl}"
BaseUrl == "https://docs.pmd-code.org/latest"
\* .replace(/\$\{pmd\.website\.baseurl\}/g, 'https://docs.pmd-code.org/latest')
ReplaceBaseUrl(url) == IF url = BaseUrlToken THEN BaseUrl ELSE url

\* mutant of ParsePriority: the fallback || 3 is dropped
ParsePriorityNoDefault(priorityStr) == parseInt(priorityStr)

\* parseInt(priorityStr) || 3
ParsePriority(priorityStr) == OrDefault(parseInt(priorityStr), 3)

\* the ruleset name: xml.match(/<ruleset\s+name="([^"]*)"/), else the category
RulesetName(src, cat) ==
    LET i == FirstFrom(src, 1, LAMBDA x :
                 x.t = "ruleset" /\ x.attrs # <<>> /\ x.attrs[1].k = "name")
    IN  IF i = 0 THEN cat ELSE src[i].attrs[1].v

\* ...(cond && { key: val }): the key is spread into the record when cond is truthy
Optional(cond, key, val) == IF cond THEN <<[k |-> key, v |-> val]>> ELSE <<>>

\* the record pushed for one match of ruleRegex
RuleRecord(src, cat, m) ==
    LET attrs == VisibleAttrs(src[m.s].attrs)
        body == SubSeq(src, m.s + 1, m.e - 1)
        properties == extractProperties(body)
        maxLangVersion == extractAttr(attrs, "maximumLanguageVersion")
        minLangVersion == extractAttr(attrs, "minimumLanguageVersion")
    IN  << [k |-> "name", v |-> extractAttr(attrs, "name")],
           [k |-> "category", v |-> cat],
           [k |-> "categoryName", v |-> RulesetName(src, cat)],
           [k |-> "since", v |-> extractAttr(attrs, "since")],
           [k |-> "message", v |-> extractAttr(attrs, "message")],
           [k |-> "ruleClass", v |-> extractAttr(attrs, "class")],
           [k |-> "externalInfoUrl",
            v |-> ReplaceBaseUrl(extractAttr(attrs, "externalInfoUrl"))],
           [k |-> "description", v |-> extractFirstElement(body, "description")],
           [k |-> "priority",
            v |-> ParsePriority(extractFirstElement(body, "priority"))],
           [k |-> "examples", v |-> extractExamples(body)] >>
        \o Optional(Len(properties) > 0, "properties", properties)
        \o Optional(maxLangVersion # "", "maxLanguageVersion", maxLangVersion)
        \o Optional(minLangVersion # "", "minLanguageVersion", minLangVersion)

\* whether the loop body pushes a record for the match (neither continue is taken)
Emits(src, m) ==
    LET attrs == VisibleAttrs(src[m.s].attrs)
    IN  ~IsReference(attrs) /\ extractAttr(attrs, "name") # ""

\* the matches of ruleRegex for which a record is pushed
EmittingMatches(src) == SelectSeq(RuleMatches(src, 1), LAMBDA m : Emits(src, m))

parseXmlFile(src, cat) ==
    MapSeq(EmittingMatches(src), LAMBDA m : RuleRecord(src, cat, m))

(***************************************************************************)
(* Input documents of the Rule Parser harness                              *)
(***************************************************************************)
\* the content of a path at which no file exists
NoFile == <<[t |-> "ENOENT"]>>
Header == RulesetTag(<<Attr("name", "Best Practices"), Attr("xmlns", "pmd")>>)

\* <rule name="Foo" since="1.0" message="msg">
DefFoo == <<Attr("name", "Foo"), Attr("since", "1.0"), Attr("message", "msg")>>
\* a definition with every optional attribute
DefBar == <<Attr("name", "Bar"), Attr("class", "net.pmd.BarRule"),
            Attr("externalInfoUrl", BaseUrlToken),
            Attr("maximumLanguageVersion", "1.8"),
            Attr("minimumLanguageVersion", "1.5")>>
\* <rule ref="rulesets/foo.xml/Bar">
RefBar == <<Attr("ref", "rulesets/foo.xml/Bar")>>
\* a renamed reference whose message holds a '>'
RefRenamed == <<Attr("name", "Baz"), Attr("message", "x > y"),
                Attr("ref", "rulesets/foo.xml/Bar")>>
\* a rule element with no name attribute
NoName == <<Attr("message", "msg")>>
RuleAttrChoices == {DefFoo, DefBar, RefBar, RefRenamed, NoName}

\* <description>d</description><priority>2</priority>
PlainBody == <<Leaf("description", <<"d">>), Leaf("priority", <<"2">>)>>

\* the text of one <rule> element: self-closing, or block form around a body
RenderRule(attrs, self, body) ==
    IF self THEN <<RuleTag(attrs, TRUE)>>
    ELSE <<RuleTag(attrs, FALSE)>> \o body \o <<RuleEnd>>

\* every kind of rule element in block form, and the references also self-closing
RuleChoices ==
    {RenderRule(a, FALSE, PlainBody) : a \in RuleAttrChoices}
        \cup {RenderRule(a, TRUE, <<>>) : a \in {RefBar, RefRenamed}}

\* documents of up to MaxRules rule elements, definitions and references mixed
StructureDocs == {<<Header>> \o Concat(rs) : rs \in SeqsUpTo(RuleChoices, MaxRules)}

PriChars == {"-", "0", "2", "7", "x", " "}
\* one rule whose <priority> holds any text of up to MaxPriLen characters
PriorityDocs ==
    {<<Header>> \o RenderRule(DefFoo, FALSE, <<Leaf("priority", t)>>) :
        t \in SeqsUpTo(PriChars, MaxPriLen)}

\* <property name="max" value="10" description="limit"/>
PropSelfMax == <<PropertyTag(<<Attr("name", "max"), Attr("value", "10"),
                               Attr("description", "limit")>>, TRUE)>>
\* <property name="min"><value>5</value></property>
PropBlockMin == <<PropertyTag(<<Attr("name", "min")>>, FALSE),
                  Leaf("value", <<"5">>), PropertyEnd>>
\* <property name="version" value="2.0"/>
PropSelfVersion == <<PropertyTag(<<Attr("name", "version"), Attr("value", "2.0")>>, TRUE)>>
\* <property name="xpath"><value><![CDATA[//x]]></value></property>
PropBlockXpath == <<PropertyTag(<<Attr("name", "xpath")>>, FALSE),
                    Leaf("value", <<CdataOpen, "//x", CdataClose>>), PropertyEnd>>
PropChoices == {PropSelfMax, PropBlockMin, PropSelfVersion, PropBlockXpath}

\* one rule whose body declares up to MaxProps properties
PropertyDocs ==
    {<<Header>> \o RenderRule(DefFoo, FALSE, PlainBody \o Concat(ps)) :
        ps \in SeqsUpTo(PropChoices, MaxProps)}

\* a rule with CDATA, white space, an empty and a non-empty example
RichBody == <<Leaf("description", <<" ", CdataOpen, "d", CdataClose, "\n">>),
              Leaf("example", <<CdataOpen, " ", CdataClose>>),
              Leaf("example", <<CdataOpen, "code", CdataClose>>)>>
\* documents without a ruleset name, and a rule with no child element at all
OtherDocs ==
    { RenderRule(DefFoo, FALSE, RichBody),
      <<RulesetTag(<<Attr("xmlns", "pmd"), Attr("name", "Best Practices")>>)>>
          \o RenderRule(DefBar, FALSE, <<>>),
      <<Header>> \o RenderRule(DefFoo, FALSE, RichBody) }

\* child elements whose closing tags are missing
OpenBody == <<Unclosed("description", <<"d">>), Unclosed("priority", <<"1">>),
              Unclosed("example", <<"code">>),
              PropertyTag(<<Attr("name", "min")>>, FALSE), Unclosed("value", <<"5">>)>>
\* the empty text, text without any rule, rules whose children or whose own
\* closing tag are missing, alone and in front of a complete rule
MalformedDocs ==
    { <<>>,
      <<Header>>,
      <<Header>> \o RenderRule(DefFoo, FALSE, OpenBody),
      <<Header, RuleTag(DefFoo, FALSE)>> \o PlainBody,
      <<Header, RuleTag(DefFoo, FALSE)>> \o OpenBody
          \o RenderRule(DefBar, FALSE, PlainBody),
      <<Header, RuleTag(NoName, FALSE)>> \o OpenBody }

ParserDocs ==
    StructureDocs \cup PriorityDocs \cup PropertyDocs \cup OtherDocs \cup MalformedDocs

(***************************************************************************)
(* Rule Parser harness: one call of parseXmlFile on any document           *)
(***************************************************************************)
\* selectedRuleName = null
NullName == <<"null">>
\* let timeout; (undefined)
NoTimer == 0
\* an empty element
EmptyGrid == [kind |-> "blank", cards |-> <<>>]
EmptyPagination == [items |-> <<>>, totalPages |-> 0]
EmptyDetail == [kind |-> "blank", name |-> NullName, tab |-> "desc"]
\* no keystroke yet
EmptyLog == [keys |-> 0, passes |-> 0, elapsed |-> 0, inTime |-> TRUE,
             passAt |-> 0, ignored |-> FALSE]

\* typeof RULES_DATA === 'undefined'
Undefined == [defined |-> FALSE, value |-> <<>>]

\* the page when the script starts (app.js:4-7), nothing checked or typed
PageStart ==
    /\ viewerRules = <<>>
    /\ filteredRules = <<>>
    /\ selectedRuleName = NullName
    /\ currentPage = 1
    /\ checkedCategories = {}
    /\ checkedPriorities = {}
    /\ searchValue = <<>>
    /\ listening = FALSE
    /\ timeout = NoTimer
    /\ timers = {}
    /\ timerSeq = 0
    /\ rulesGrid = EmptyGrid
    /\ pagination = EmptyPagination
    /\ ruleDetail = EmptyDetail
    /\ viewerPc = "start"
    /\ debounceLog = EmptyLog
    /\ navigatedTo = 0

\* no page is open
ViewerIdle == RULES_DATA = Undefined /\ PageStart

PipeIdle ==
    /\ listing = <<>>
    /\ resources = <<>>
    /\ rulesData = NoFile
    /\ run = "none"
    /\ files = <<>>
    /\ allRules = <<>>
    /\ rules = <<>>
    /\ exitCode = -1
    /\ lastRun = "none"
    /\ readData = NoFile
    /\ writes = 0
    /\ writer = "none"
    /\ readWriter = "none"

ParserInit ==
    /\ xml \in ParserDocs
    /\ category \in {"bestpractices", "design"}
    /\ parsed = <<>>
    /\ parserPc = "input"
    /\ PipeIdle
    /\ ViewerIdle

Parse ==
    /\ parserPc = "input"
    /\ parsed' = parseXmlFile(xml, category)
    /\ parserPc' = "done"
    /\ UNCHANGED <<xml, category>>
    /\ UNCHANGED pipeVars
    /\ UNCHANGED viewerVars

ParserNext == Parse

ParserSpec == ParserInit /\ [][ParserNext]_vars

(***************************************************************************)
(* Catalogue Builder: tables, sort and serialization                       *)
(***************************************************************************)
CATEGORY_MAP ==
    "bestpractices_ko.xml" :> "bestpractices" @@
    "codestyle_ko.xml" :> "codestyle" @@
    "design_ko.xml" :> "design" @@
    "documentation_ko.xml" :> "documentation" @@
    "errorprone_ko.xml" :> "errorprone" @@
    "multithreading_ko.xml" :> "multithreading" @@
    "performance_ko.xml" :> "performance" @@
    "security_ko.xml" :> "security"

\* String.prototype.localeCompare on the strings of the model: their place in
\* the collation order (categories and rule names, ascending)
CollationOrder ==
    << "ArrayIsStoredDirectly", "AtLeastOneConstructor", "AvoidReassigningParameters",
       "Bar", "Baz", "bestpractices", "codestyle", "design", "documentation",
       "errorprone", "Foo", "ImplicitFunctionalInterface", "multithreading",
       "performance", "security" >>
Sign(n) == IF n < 0 THEN -1 ELSE IF n > 0 THEN 1 ELSE 0
localeCompare(a, b) == Sign(IndexOf(CollationOrder, a) - IndexOf(CollationOrder, b))

\* the comparator given to allRules.sort
CompareRules(a, b) ==
    IF Get(a, "category") # Get(b, "category")
    THEN localeCompare(Get(a, "category"), Get(b, "category"))
    ELSE IF Get(a, "priority") # Get(b, "priority")
    THEN Get(a, "priority") - Get(b, "priority")
    ELSE localeCompare(Get(a, "name"), Get(b, "name"))

\* x placed into a sorted sequence after every element that does not follow it
InsertSorted(sorted, x, cmp(_, _)) ==
    LET before == Cardinality({i \in 1..Len(sorted) : cmp(sorted[i], x) <= 0})
    IN  SubSeq(sorted, 1, before) \o <<x>> \o SubSeq(sorted, before + 1, Len(sorted))

\* Array.prototype.sort(cmp): a stable sort
ArraySort(arr, cmp(_, _)) ==
    LET sorted[n \in 0..Len(arr)] ==
            IF n = 0 THEN <<>> ELSE InsertSorted(sorted[n - 1], arr[n], cmp)
    IN  sorted[Len(arr)]

\* mutant of SortRules: the comparator orders priorities descending
SortRulesDescending(arr) ==
    ArraySort(arr, LAMBDA a, b :
        IF Get(a, "category") # Get(b, "category")
        THEN localeCompare(Get(a, "category"), Get(b, "category"))
        ELSE IF Get(a, "priority") # Get(b, "priority")
        THEN Get(b, "priority") - Get(a, "priority")
        ELSE localeCompare(Get(a, "name"), Get(b, "name")))

\* allRules.sort((a, b) => ...)
SortRules(arr) == ArraySort(arr, CompareRules)

\* JSON.parse's null
Null == 0 - (10 ^ 9 + 2)

\* JSON.stringify of one field value: a number that is not finite becomes null
JsonLiteral(key, val) ==
    IF key = "priority"
    THEN IF val = Null \/ ~IsFinite(val) THEN <<"null">> ELSE <<"number", val>>
    ELSE IF key = "tier" THEN val
    ELSE <<"literal", val>>

\* JSON.parse of one field value
JsonValue(key, lit) ==
    IF lit[1] = "null" THEN Null
    ELSE IF key = "tier" THEN lit
    ELSE lit[2]

\* JSON.stringify(records, null, 2): the array text, one object per record with
\* its keys in insertion order
JsonStringify(records) ==
    [t |-> "json",
     v |-> MapSeq(records, LAMBDA r :
              MapSeq(r, LAMBDA f : [k |-> f.k, v |-> JsonLiteral(f.k, f.v)]))]

RECURSIVE ObjectOf(_)
\* the object JSON.parse builds from the members of one object text
ObjectOf(members) ==
    IF members = <<>> THEN <<>>
    ELSE LET m == members[Len(members)]
         IN  SetField(ObjectOf(SubSeq(members, 1, Len(members) - 1)),
                      m.k, JsonValue(m.k, m.v))

\* JSON.parse of an array text
JsonParse(json) == MapSeq(json.v, ObjectOf)

Source(str) == [t |-> "src", s |-> str]
Space(str) == [t |-> "ws", s |-> str]

\* `const RULES_DATA =\n${JSON.stringify(records, null, 2)};\n`
ModuleText(records) ==
    << Source("const RULES_DATA ="), Space("\n"), JsonStringify(records),
       Source(";"), Space("\n") >>

RECURSIVE DropSpaceLeft(_)
DropSpaceLeft(text) ==
    IF text # <<>> /\ Head(text).t = "ws" THEN DropSpaceLeft(Tail(text)) ELSE text

RECURSIVE DropSpaceRight(_)
DropSpaceRight(text) ==
    IF text # <<>> /\ text[Len(text)].t = "ws"
    THEN DropSpaceRight(SubSeq(text, 1, Len(text) - 1))
    ELSE text

\* raw.replace(/^const RULES_DATA =\s*/, "")
StripPrefix(raw) ==
    IF raw # <<>> /\ Head(raw) = Source("const RULES_DATA =")
    THEN DropSpaceLeft(Tail(raw))
    ELSE raw

\* .replace(/;\s*$/, "")
StripSuffix(text) ==
    LET t == DropSpaceRight(text)
    IN  IF t # <<>> /\ t[Len(t)] = Source(";")
        THEN SubSeq(t, 1, Len(t) - 1)
        ELSE text

jsonStr(raw) == StripSuffix(StripPrefix(raw))

\* whether JSON.parse(jsonStr) returns (it throws on anything but one JSON text)
Parses(raw) == Len(jsonStr(raw)) = 1 /\ jsonStr(raw)[1].t = "json"

\* the record sequence the Annotator reads from the text of rules_data.js
ReadRules(raw) == JsonParse(jsonStr(raw)[1])

(***************************************************************************)
(* Tier Annotator: the lookup table                                        *)
(***************************************************************************)
Tier(n) == <<"number", n>>
TierSkip == <<"string", "skip">>

\* four of the 290 entries of TIER_MAP, one for each tier value
TIER_MAP ==
    "AvoidReassigningParameters" :>
        [tier |-> Tier(2), claude_comment |-> "recommended: parameter reassignment"] @@
    "ImplicitFunctionalInterface" :>
        [tier |-> Tier(3), claude_comment |-> "optional: @FunctionalInterface"] @@
    "ArrayIsStoredDirectly" :>
        [tier |-> Tier(1), claude_comment |-> "required: array stored directly"] @@
    "AtLeastOneConstructor" :>
        [tier |-> TierSkip, claude_comment |-> "skip: default constructor suffices"]

\* new Set(Object.keys(TIER_MAP))
tierMapKeys == DOMAIN TIER_MAP

\* rules.map((r) => r.name).filter((name) => !tierMapKeys.has(name))
missingFromMap(recs) ==
    SelectSeq(MapSeq(recs, LAMBDA r : Get(r, "name")), LAMBDA n : n \notin tierMapKeys)

\* [...tierMapKeys].filter((name) => !ruleNames.includes(name))
extraInMap(recs) ==
    {n \in tierMapKeys : \A i \in 1..Len(recs) : Get(recs[i], "name") # n}

\* mutant of AnnotateRule: claude_comment is not set
AnnotateRuleTierOnly(rule) ==
    SetField(rule, "tier", TIER_MAP[Get(rule, "name")].tier)

\* rule.tier = tierInfo.tier; rule.claude_comment = tierInfo.claude_comment
AnnotateRule(rule) ==
    LET tierInfo == TIER_MAP[Get(rule, "name")]
    IN  SetField(SetField(rule, "tier", tierInfo.tier),
                 "claude_comment", tierInfo.claude_comment)

\* mutant of AnnotateAll: the records of tier "skip" are left out of the result
AnnotateAllButSkipped(recs) ==
    SelectSeq(MapSeq(recs, AnnotateRule), LAMBDA r : Get(r, "tier") # TierSkip)

\* the for loop over rules
AnnotateAll(recs) == MapSeq(recs, AnnotateRule)

(***************************************************************************)
(* The resources directory                                                 *)
(***************************************************************************)
FileRuleChoices ==
    { RenderRule(<<Attr("name", "ArrayIsStoredDirectly"), Attr("message", "msg")>>,
                 FALSE, <<Leaf("priority", <<"1">>)>>),
      RenderRule(<<Attr("name", "AtLeastOneConstructor")>>, FALSE, <<>>),
      RenderRule(<<Attr("name", "Foo")>>, FALSE, <<Leaf("priority", <<"2">>)>>),
      RenderRule(<<Attr("name", "AvoidReassigningParameters")>>,
                 FALSE, <<Leaf("priority", <<Nines400>>)>>) }

FileDocs(n) == {<<Header>> \o Concat(rs) : rs \in SeqsUpTo(FileRuleChoices, n)}

CustomDoc == <<Header>> \o
    RenderRule(<<Attr("name", "ImplicitFunctionalInterface")>>, FALSE, PlainBody)

\* a document whose first rule element has no name attribute
NamelessDoc == <<Header>> \o
    RenderRule(<<Attr("message", "msg")>>, FALSE, PlainBody) \o
    RenderRule(<<Attr("name", "Foo")>>, FALSE, <<Leaf("priority", <<"2">>)>>)

\* fs.readFileSync(filePath, 'utf-8') returns the text (it throws otherwise)
Readable(doc) == doc # NoFile

\* f.endsWith('.xml') on the names of the directory
EndsWithXml(f) == f \in {"bestpractices_ko.xml", "design_ko.xml", "custom.xml"}

Directories ==
    { "bestpractices_ko.xml" :> a @@ "design_ko.xml" :> b @@
      "custom.xml" :> CustomDoc @@ "notes.txt" :> <<>> :
        a \in FileDocs(MaxFileRules),
        b \in FileDocs(1) \cup {NamelessDoc, NoFile} }

\* a rules_data.js cut off in the middle of the array
CorruptText == <<Source("const RULES_DATA ="), Space("\n"), Source("[{")>>

\* the orders in which a directory listing can return the names of S
Listings(S) ==
    {o \in [1..Cardinality(S) -> S] : \A i, j \in 1..Cardinality(S) : o[i] = o[j] => i = j}

(***************************************************************************)
(* The build and annotate runs                                             *)
(***************************************************************************)
ParserIdle ==
    /\ xml = <<>>
    /\ category = ""
    /\ parsed = <<>>
    /\ parserPc = "done"

Init ==
    /\ ParserIdle
    /\ ViewerIdle
    /\ listing = <<>>
    /\ resources \in Directories
    /\ rulesData \in {NoFile, CorruptText}
    /\ run = "none"
    /\ files = <<>>
    /\ allRules = <<>>
    /\ rules = <<>>
    /\ exitCode = -1
    /\ lastRun = "none"
    /\ readData = NoFile
    /\ writes = 0
    /\ writer = "none"
    /\ readWriter = "none"

\* node build: readdirSync(RESOURCES_DIR).filter(f => f.endsWith('.xml'))
BuildStart ==
    /\ run = "none"
    /\ run' = "build"
    /\ files' \in Listings({f \in DOMAIN resources : EndsWithXml(f)})
    /\ listing' = files'
    /\ allRules' = <<>>
    /\ readData' = rulesData
    /\ readWriter' = writer
    /\ writes' = 0
    /\ UNCHANGED <<resources, rulesData, rules, exitCode, lastRun, writer>>
    /\ UNCHANGED parserVars
    /\ UNCHANGED viewerVars

\* mutant of BuildSkip: a file that CATEGORY_MAP does not know ends the run
BuildSkipAbort ==
    /\ run = "build"
    /\ files # <<>>
    /\ Head(files) \notin DOMAIN CATEGORY_MAP
    /\ files' = <<>>
    /\ run' = "none"
    /\ exitCode' = 1
    /\ lastRun' = "build"
    /\ UNCHANGED <<resources, listing, rulesData, allRules, rules, readData, writes, writer,
                   readWriter>>
    /\ UNCHANGED parserVars
    /\ UNCHANGED viewerVars

\* one iteration of the for loop on a file that CATEGORY_MAP does not know
BuildSkip ==
    /\ run = "build"
    /\ files # <<>>
    /\ Head(files) \notin DOMAIN CATEGORY_MAP
    /\ files' = Tail(files)
    /\ UNCHANGED <<resources, listing, rulesData, run, allRules, rules, exitCode, lastRun,
                   readData, writes, writer, readWriter>>
    /\ UNCHANGED parserVars
    /\ UNCHANGED viewerVars

\* mutant of BuildParse: every file is parsed under the first category
BuildParseOneCategory ==
    /\ run = "build"
    /\ files # <<>>
    /\ Head(files) \in DOMAIN CATEGORY_MAP
    /\ Readable(resources[Head(files)])
    /\ allRules' = allRules \o parseXmlFile(resources[Head(files)], "bestpractices")
    /\ files' = Tail(files)
    /\ UNCHANGED <<resources, listing, rulesData, run, rules, exitCode, lastRun, readData,
                   writes, writer, readWriter>>
    /\ UNCHANGED parserVars
    /\ UNCHANGED viewerVars

\* one iteration of the for loop on a recognized file
BuildParse ==
    /\ run = "build"
    /\ files # <<>>
    /\ Head(files) \in DOMAIN CATEGORY_MAP
    /\ Readable(resources[Head(files)])
    /\ allRules' = allRules \o
                   parseXmlFile(resources[Head(files)], CATEGORY_MAP[Head(files)])
    /\ files' = Tail(files)
    /\ UNCHANGED <<resources, listing, rulesData, run, rules, exitCode, lastRun, readData,
                   writes, writer, readWriter>>
    /\ UNCHANGED parserVars
    /\ UNCHANGED viewerVars

\* mutant of BuildReadError: the records accumulated so far are written
\* before the run ends
BuildReadErrorFlushes ==
    /\ run = "build"
    /\ files # <<>>
    /\ Head(files) \in DOMAIN CATEGORY_MAP
    /\ ~Readable(resources[Head(files)])
    /\ rulesData' = ModuleText(allRules)
    /\ writes' = writes + 1
    /\ writer' = "build"
    /\ run' = "none"
    /\ exitCode' = 1
    /\ lastRun' = "build aborted"
    /\ UNCHANGED <<resources, listing, files, allRules, rules, readData, readWriter>>
    /\ UNCHANGED parserVars
    /\ UNCHANGED viewerVars

\* readFileSync throws on a recognized file: the exception leaves main and
\* the process ends with a failure status
BuildReadError ==
    /\ run = "build"
    /\ files # <<>>
    /\ Head(files) \in DOMAIN CATEGORY_MAP
    /\ ~Readable(resources[Head(files)])
    /\ run' = "none"
    /\ exitCode' = 1
    /\ lastRun' = "build aborted"
    /\ UNCHANGED <<resources, listing, rulesData, files, allRules, rules, readData,
                   writes, writer, readWriter>>
    /\ UNCHANGED parserVars
    /\ UNCHANGED viewerVars

\* mutant of BuildWrite: the records are written in the order of accumulation
BuildWriteUnsorted ==
    /\ run = "build"
    /\ files = <<>>
    /\ allRules' = allRules
    /\ rulesData' = ModuleText(allRules')
    /\ writes' = writes + 1
    /\ run' = "none"
    /\ exitCode' = 0
    /\ lastRun' = "build"
    /\ writer' = "build"
    /\ UNCHANGED <<resources, listing, files, rules, readData, readWriter>>
    /\ UNCHANGED parserVars
    /\ UNCHANGED viewerVars

\* after the loop: sort, serialize, write, exit
BuildWrite ==
    /\ run = "build"
    /\ files = <<>>
    /\ allRules' = SortRules(allRules)
    /\ rulesData' = ModuleText(allRules')
    /\ writes' = writes + 1
    /\ run' = "none"
    /\ exitCode' = 0
    /\ lastRun' = "build"
    /\ writer' = "build"
    /\ UNCHANGED <<resources, listing, files, rules, readData, readWriter>>
    /\ UNCHANGED parserVars
    /\ UNCHANGED viewerVars

\* node add_tiers: readFileSync throws, there is no rules_data.js
AnnotateNoFile ==
    /\ run = "none"
    /\ rulesData = NoFile
    /\ readData' = rulesData
    /\ readWriter' = writer
    /\ writes' = 0
    /\ rules' = <<>>
    /\ exitCode' = 1
    /\ lastRun' = "annotate"
    /\ UNCHANGED <<resources, listing, rulesData, run, files, allRules, writer>>
    /\ UNCHANGED parserVars
    /\ UNCHANGED viewerVars

\* mutant of AnnotateParseError: the run replaces the file it cannot parse
\* by an empty catalogue before it exits
AnnotateParseErrorTruncates ==
    /\ run = "none"
    /\ rulesData # NoFile
    /\ ~Parses(rulesData)
    /\ readData' = rulesData
    /\ readWriter' = writer
    /\ rulesData' = ModuleText(<<>>)
    /\ writes' = 1
    /\ rules' = <<>>
    /\ exitCode' = 1
    /\ lastRun' = "annotate"
    /\ UNCHANGED <<resources, listing, run, files, allRules, writer>>
    /\ UNCHANGED parserVars
    /\ UNCHANGED viewerVars

\* node add_tiers: JSON.parse throws, process.exit(1)
AnnotateParseError ==
    /\ run = "none"
    /\ rulesData # NoFile
    /\ ~Parses(rulesData)
    /\ readData' = rulesData
    /\ readWriter' = writer
    /\ writes' = 0
    /\ rules' = <<>>
    /\ exitCode' = 1
    /\ lastRun' = "annotate"
    /\ UNCHANGED <<resources, listing, rulesData, run, files, allRules, writer>>
    /\ UNCHANGED parserVars
    /\ UNCHANGED viewerVars

\* node add_tiers: the file is read and parsed
AnnotateRead ==
    /\ run = "none"
    /\ rulesData # NoFile
    /\ Parses(rulesData)
    /\ readData' = rulesData
    /\ readWriter' = writer
    /\ writes' = 0
    /\ rules' = ReadRules(rulesData)
    /\ run' = "annotate"
    /\ UNCHANGED <<resources, listing, rulesData, files, allRules, exitCode, lastRun, writer>>
    /\ UNCHANGED parserVars
    /\ UNCHANGED viewerVars

\* mutant of AnnotateMissing: the records that have an entry are annotated and
\* written before the run fails
AnnotateMissingAfterWrite ==
    /\ run = "annotate"
    /\ Len(missingFromMap(rules)) > 0
    /\ rules' = MapSeq(rules, LAMBDA r :
                    IF Get(r, "name") \in tierMapKeys THEN AnnotateRule(r) ELSE r)
    /\ rulesData' = ModuleText(rules')
    /\ writes' = writes + 1
    /\ writer' = "annotate"
    /\ run' = "none"
    /\ exitCode' = 1
    /\ lastRun' = "annotate"
    /\ UNCHANGED <<resources, listing, files, allRules, readData, readWriter>>
    /\ UNCHANGED parserVars
    /\ UNCHANGED viewerVars

\* a name is missing from TIER_MAP: process.exit(1)
AnnotateMissing ==
    /\ run = "annotate"
    /\ Len(missingFromMap(rules)) > 0
    /\ run' = "none"
    /\ exitCode' = 1
    /\ lastRun' = "annotate"
    /\ UNCHANGED <<resources, listing, rulesData, files, allRules, rules, readData, writes,
                   writer, readWriter>>
    /\ UNCHANGED parserVars
    /\ UNCHANGED viewerVars

\* mutant of AnnotateWrite: an entry of TIER_MAP without a record is fatal
AnnotateWriteNoStale ==
    /\ run = "annotate"
    /\ Len(missingFromMap(rules)) = 0
    /\ IF extraInMap(rules) # {}
       THEN /\ exitCode' = 1
            /\ UNCHANGED <<rules, rulesData, writes, writer>>
       ELSE /\ rules' = AnnotateAll(rules)
            /\ rulesData' = ModuleText(rules')
            /\ writes' = writes + 1
            /\ exitCode' = 0
            /\ writer' = "annotate"
    /\ run' = "none"
    /\ lastRun' = "annotate"
    /\ UNCHANGED <<resources, listing, files, allRules, readData, readWriter>>
    /\ UNCHANGED parserVars
    /\ UNCHANGED viewerVars

\* every name is in TIER_MAP: annotate every record, write back, exit
AnnotateWrite ==
    /\ run = "annotate"
    /\ Len(missingFromMap(rules)) = 0
    /\ rules' = AnnotateAll(rules)
    /\ rulesData' = ModuleText(rules')
    /\ writes' = writes + 1
    /\ run' = "none"
    /\ exitCode' = 0
    /\ lastRun' = "annotate"
    /\ writer' = "annotate"
    /\ UNCHANGED <<resources, listing, files, allRules, readData, readWriter>>
    /\ UNCHANGED parserVars
    /\ UNCHANGED viewerVars

Next ==
    \/ BuildStart
    \/ BuildSkip
    \/ BuildParse
    \/ BuildReadError
    \/ BuildWrite
    \/ AnnotateNoFile
    \/ AnnotateParseError
    \/ AnnotateRead
    \/ AnnotateMissing
    \/ AnnotateWrite

Spec == Init /\ [][Next]_vars

(***************************************************************************)
(* Viewer: strings, the catalogue it loads                                 *)
(*   the strings the search reads (name, message, description,             *)
(*   categoryName, the search box) are sequences of characters             *)
(***************************************************************************)
RULES_PER_PAGE == 20
\* most records in a catalogue the Viewer loads
MaxCatalogue == 41
\* most keystrokes in the search box
MaxKeystrokes == 2
\* debounce(applyFilters, 300)
Wait == 300
\* the step of the clock, in ms
TickMs == Wait \div 2
maxVisiblePages == 5

Min(a, b) == IF a < b THEN a ELSE b
Max(a, b) == IF a > b THEN a ELSE b

UpperCase == <<"A", "B", "C", "D", "E", "F", "G", "H", "I", "J", "K", "L", "M",
               "N", "O", "P", "Q", "R", "S", "T", "U", "V", "W", "X", "Y", "Z">>
LowerCase == <<"a", "b", "c", "d", "e", "f", "g", "h", "i", "j", "k", "l", "m",
               "n", "o", "p", "q", "r", "s", "t", "u", "v", "w", "x", "y", "z">>

\* String.prototype.toLowerCase
toLowerCase(text) ==
    [i \in 1..Len(text) |->
        IF IndexOf(UpperCase, text[i]) # 0
        THEN LowerCase[IndexOf(UpperCase, text[i])] ELSE text[i]]

\* String.prototype.includes
includes(text, term) ==
    \E i \in 0..(Len(text) - Len(term)) : SubSeq(text, i + 1, i + Len(term)) = term

\* String(n) of a non-negative integer
RECURSIVE String(_)
String(n) ==
    IF n < 10 THEN <<DecDigits[n + 1]>>
    ELSE String(n \div 10) \o <<DecDigits[(n % 10) + 1]>>

ViewerCategories == <<"bestpractices", "design", "security">>
CategoryNameOf ==
    "bestpractices" :> <<"B", "e", "s", "t">> @@
    "design" :> <<"D", "e", "s">> @@
    "security" :> <<"S", "a", "f", "e">>

\* the i-th record of a catalogue: RULES_PER_PAGE records of the first
\* category, as many of the second, the rest of the third; the records are in
\* the order the Catalogue Builder writes (category, priority, name)
MakeRule(i) ==
    LET cat == ViewerCategories[Min((i - 1) \div RULES_PER_PAGE, 2) + 1]
    IN  << [k |-> "name",
            v |-> <<"R">>
                  \o (IF i >= 100 THEN <<DecDigits[((i \div 100) % 10) + 1]>> ELSE <<>>)
                  \o <<DecDigits[((i \div 10) % 10) + 1], DecDigits[(i % 10) + 1]>>
                  \o (IF i % 4 = 3 THEN <<"a">> ELSE <<>>)],
           [k |-> "category", v |-> cat],
           [k |-> "categoryName", v |-> CategoryNameOf[cat]],
           [k |-> "message",
            v |-> IF i % 4 = 1 THEN <<"A", "v">> ELSE <<"m">>],
           [k |-> "description",
            v |-> IF i % 4 = 2 THEN <<"b", "a">> ELSE <<"d">>],
           [k |-> "priority",
            v |-> IF i > 2 * RULES_PER_PAGE THEN 1
                  ELSE 1 + ((((i - 1) % RULES_PER_PAGE) * 5) \div RULES_PER_PAGE)] >>

MakeCatalogue(n) == [i \in 1..n |-> MakeRule(i)]

CatalogueSizes == {0, MaxCatalogue}

\* the checkboxes of the page
CheckboxCategories == {"design", "security"}
CheckboxPriorities == {<<"1">>}
\* what the user types into the search box
SearchTexts == {<<>>, <<" ">>, <<"A">>}
\* the card the user clicks, when the grid shows it
ClickedNames == {<<"R", "4", "1">>}
\* the tabs of the detail panel the user clicks
DetailTabs == {"desc", "example"}

(***************************************************************************)
(* Viewer: filter, grid and page controls                                  *)
(***************************************************************************)
\* the predicate of rules.filter in applyFilters
MatchesFilters(rule, categories, priorities, searchTerm) ==
    LET matchesCategory == categories = {} \/ Get(rule, "category") \in categories
        matchesPriority == priorities = {} \/ String(Get(rule, "priority")) \in priorities
        matchesSearch ==
            \/ searchTerm = <<>>
            \/ includes(toLowerCase(Get(rule, "name")), searchTerm)
            \/ includes(toLowerCase(Get(rule, "message")), searchTerm)
            \/ includes(toLowerCase(Get(rule, "description")), searchTerm)
            \/ (/\ Has(rule, "categoryName")
                /\ Get(rule, "categoryName") # <<>>
                /\ includes(toLowerCase(Get(rule, "categoryName")), searchTerm))
    IN  matchesCategory /\ matchesPriority /\ matchesSearch

\* mutant of FilterRules: the search reads the name only
FilterRulesByName(rs, categories, priorities, value) ==
    LET searchTerm == Trim(toLowerCase(value))
    IN  SelectSeq(rs, LAMBDA rule :
            /\ categories = {} \/ Get(rule, "category") \in categories
            /\ priorities = {} \/ String(Get(rule, "priority")) \in priorities
            /\ searchTerm = <<>> \/ includes(toLowerCase(Get(rule, "name")), searchTerm))

\* searchInput.value.toLowerCase().trim() and rules.filter(...)
FilterRules(rs, categories, priorities, value) ==
    LET searchTerm == Trim(toLowerCase(value))
    IN  SelectSeq(rs, LAMBDA rule : MatchesFilters(rule, categories, priorities, searchTerm))

\* mutant of PageRules: the slice starts one record late
PageRulesShifted(fr, page) ==
    SubSeq(fr, ((page - 1) * RULES_PER_PAGE) + 2,
           Min(((page - 1) * RULES_PER_PAGE) + RULES_PER_PAGE + 1, Len(fr)))

\* filteredRules.slice(startIndex, endIndex)
PageRules(fr, page) ==
    LET startIndex == (page - 1) * RULES_PER_PAGE
        endIndex == startIndex + RULES_PER_PAGE
    IN  SubSeq(fr, startIndex + 1, Min(endIndex, Len(fr)))

\* Math.ceil(filteredRules.length / RULES_PER_PAGE)
TotalPages(fr) == (Len(fr) + RULES_PER_PAGE - 1) \div RULES_PER_PAGE

Item(role, page, disabled, active) ==
    [role |-> role, page |-> page, disabled |-> disabled, active |-> active]

\* mutant of RenderPagination: startPage is not moved back when the window
\* is cut off at the last page
RenderPaginationNoAdjust(fr, page) ==
    LET totalPages == TotalPages(fr)
        startPage == Max(1, page - (maxVisiblePages \div 2))
        endPage == Min(totalPages, startPage + maxVisiblePages - 1)
    IN  IF totalPages <= 1 THEN EmptyPagination
        ELSE [items |->
                 <<Item("prev", page - 1, page = 1, FALSE)>>
                 \o (IF startPage > 1 THEN <<Item("first", 1, FALSE, FALSE)>> ELSE <<>>)
                 \o (IF startPage > 2 THEN <<Item("ellipsis", 0, TRUE, FALSE)>> ELSE <<>>)
                 \o [i \in 1..(endPage - startPage + 1) |->
                        Item("number", startPage + i - 1, FALSE, startPage + i - 1 = page)]
                 \o (IF endPage < totalPages - 1
                     THEN <<Item("ellipsis", 0, TRUE, FALSE)>> ELSE <<>>)
                 \o (IF endPage < totalPages
                     THEN <<Item("last", totalPages, FALSE, FALSE)>> ELSE <<>>)
                 \o <<Item("next", page + 1, page = totalPages, FALSE)>>
                 \o <<Item("info", page, TRUE, FALSE)>>,
              totalPages |-> totalPages]

\* the content renderPagination gives #pagination, and the totalPages its
\* click listeners hold
RenderPagination(fr, page) ==
    LET totalPages == TotalPages(fr)
        start0 == Max(1, page - (maxVisiblePages \div 2))
        endPage == Min(totalPages, start0 + maxVisiblePages - 1)
        startPage == IF endPage - start0 + 1 < maxVisiblePages
                     THEN Max(1, endPage - maxVisiblePages + 1) ELSE start0
    IN  IF totalPages <= 1 THEN EmptyPagination
        ELSE [items |->
                 <<Item("prev", page - 1, page = 1, FALSE)>>
                 \o (IF startPage > 1 THEN <<Item("first", 1, FALSE, FALSE)>> ELSE <<>>)
                 \o (IF startPage > 2 THEN <<Item("ellipsis", 0, TRUE, FALSE)>> ELSE <<>>)
                 \o [i \in 1..(endPage - startPage + 1) |->
                        Item("number", startPage + i - 1, FALSE, startPage + i - 1 = page)]
                 \o (IF endPage < totalPages - 1
                     THEN <<Item("ellipsis", 0, TRUE, FALSE)>> ELSE <<>>)
                 \o (IF endPage < totalPages
                     THEN <<Item("last", totalPages, FALSE, FALSE)>> ELSE <<>>)
                 \o <<Item("next", page + 1, page = totalPages, FALSE)>>
                 \o <<Item("info", page, TRUE, FALSE)>>,
              totalPages |-> totalPages]

\* the content renderRules gives #rulesGrid
RenderGrid(fr, page, selected) ==
    LET pageRules == PageRules(fr, page)
    IN  IF Len(pageRules) = 0 THEN [kind |-> "noResults", cards |-> <<>>]
        ELSE [kind |-> "cards",
              cards |-> [i \in 1..Len(pageRules) |->
                            [name |-> Get(pageRules[i], "name"),
                             active |-> selected = Get(pageRules[i], "name")]]]

\* renderRules(): the grid, and the page controls (none when the page is empty)
renderRules(fr, page, selected) ==
    /\ rulesGrid' = RenderGrid(fr, page, selected)
    /\ pagination' = IF Len(PageRules(fr, page)) = 0 THEN EmptyPagination
                     ELSE RenderPagination(fr, page)

\* mutant of applyFilters: the filter result replaces rules
applyFiltersInPlace(categories, priorities) ==
    /\ filteredRules' = FilterRules(viewerRules, categories, priorities, searchValue')
    /\ viewerRules' = filteredRules'
    /\ currentPage' = 1
    /\ renderRules(filteredRules', 1, selectedRuleName)

\* applyFilters() under the checkbox state given
applyFilters(categories, priorities) ==
    /\ filteredRules' = FilterRules(viewerRules, categories, priorities, searchValue')
    /\ viewerRules' = viewerRules
    /\ currentPage' = 1
    /\ renderRules(filteredRules', 1, selectedRuleName)

(***************************************************************************)
(* Viewer: one page, from DOMContentLoaded on                              *)
(***************************************************************************)
ViewerInit ==
    /\ ParserIdle
    /\ PipeIdle
    /\ PageStart
    /\ RULES_DATA \in {Undefined}
           \cup {[defined |-> TRUE, value |-> MakeCatalogue(n)] : n \in CatalogueSizes}

\* loadRules(), on DOMContentLoaded
ViewerLoad ==
    /\ viewerPc = "start"
    /\ IF RULES_DATA.defined
       THEN /\ viewerRules' = RULES_DATA.value
            /\ filteredRules' = viewerRules'
            /\ renderRules(filteredRules', currentPage, selectedRuleName)
            /\ listening' = TRUE
            /\ viewerPc' = "ready"
       ELSE /\ rulesGrid' = [kind |-> "failed", cards |-> <<>>]
            /\ viewerPc' = "failed"
            /\ UNCHANGED <<viewerRules, filteredRules, pagination, listening>>
    /\ UNCHANGED <<RULES_DATA, selectedRuleName, currentPage, checkedCategories,
                   checkedPriorities, searchValue, timeout, timers, timerSeq,
                   ruleDetail, debounceLog>>
    /\ UNCHANGED navigatedTo
    /\ UNCHANGED parserVars
    /\ UNCHANGED pipeVars

\* what a control event does: applyFilters if a listener is registered
OnChange(categories, priorities) ==
    IF listening
    THEN /\ applyFilters(categories, priorities)
         /\ UNCHANGED debounceLog
    ELSE /\ debounceLog' = [debounceLog EXCEPT !.ignored = TRUE]
         /\ UNCHANGED <<viewerRules, filteredRules, currentPage, rulesGrid, pagination>>

\* the user toggles a category checkbox
ToggleCategory ==
    /\ viewerPc # "start"
    /\ \E c \in CheckboxCategories :
          /\ checkedCategories' = IF c \in checkedCategories
                                  THEN checkedCategories \ {c}
                                  ELSE checkedCategories \cup {c}
          /\ searchValue' = searchValue
          /\ OnChange(checkedCategories', checkedPriorities)
    /\ UNCHANGED <<RULES_DATA, selectedRuleName, checkedPriorities, listening, timeout,
                   timers, timerSeq, ruleDetail, viewerPc>>
    /\ navigatedTo' = 0
    /\ UNCHANGED parserVars
    /\ UNCHANGED pipeVars

\* mutant of TogglePriority: the priority checkboxes have no change listener
TogglePriorityUnheard ==
    /\ viewerPc # "start"
    /\ \E p \in CheckboxPriorities :
          checkedPriorities' = IF p \in checkedPriorities
                               THEN checkedPriorities \ {p}
                               ELSE checkedPriorities \cup {p}
    /\ UNCHANGED <<RULES_DATA, viewerRules, filteredRules, selectedRuleName, currentPage,
                   checkedCategories, searchValue, listening, timeout, timers, timerSeq,
                   rulesGrid, pagination, ruleDetail, viewerPc, debounceLog>>
    /\ navigatedTo' = 0
    /\ UNCHANGED parserVars
    /\ UNCHANGED pipeVars

\* the user toggles a priority checkbox
TogglePriority ==
    /\ viewerPc # "start"
    /\ \E p \in CheckboxPriorities :
          /\ checkedPriorities' = IF p \in checkedPriorities
                                  THEN checkedPriorities \ {p}
                                  ELSE checkedPriorities \cup {p}
          /\ searchValue' = searchValue
          /\ OnChange(checkedCategories, checkedPriorities')
    /\ UNCHANGED <<RULES_DATA, selectedRuleName, checkedCategories, listening, timeout,
                   timers, timerSeq, ruleDetail, viewerPc>>
    /\ navigatedTo' = 0
    /\ UNCHANGED parserVars
    /\ UNCHANGED pipeVars

\* the debounce history after a keystroke: a keystroke with no timer pending
\* begins a burst
LogKeystroke ==
    IF \E t \in timers : t.id = timeout
    THEN [debounceLog EXCEPT !.keys = Min(@ + 1, MaxKeystrokes),
                             !.inTime = @ /\ debounceLog.elapsed < Wait,
                             !.elapsed = 0]
    ELSE [debounceLog EXCEPT !.keys = 1, !.passes = 0, !.inTime = TRUE,
                             !.elapsed = 0, !.passAt = 0]

\* mutant of Keystroke: executedFunction does not clear the pending timer
KeystrokeNoClear ==
    /\ viewerPc # "start"
    /\ timerSeq < MaxKeystrokes
    /\ \E v \in SearchTexts \ {searchValue} : searchValue' = v
    /\ IF listening
       THEN /\ timers' = timers \cup {[id |-> timerSeq + 1, left |-> Wait]}
            /\ timeout' = timerSeq + 1
            /\ timerSeq' = timerSeq + 1
            /\ debounceLog' = LogKeystroke
       ELSE /\ debounceLog' = [debounceLog EXCEPT !.ignored = TRUE]
            /\ UNCHANGED <<timers, timeout, timerSeq>>
    /\ UNCHANGED <<RULES_DATA, viewerRules, filteredRules, selectedRuleName, currentPage,
                   checkedCategories, checkedPriorities, listening, rulesGrid,
                   pagination, ruleDetail, viewerPc>>
    /\ navigatedTo' = 0
    /\ UNCHANGED parserVars
    /\ UNCHANGED pipeVars

\* an input event of the search box: executedFunction of debounce
Keystroke ==
    /\ viewerPc # "start"
    /\ timerSeq < MaxKeystrokes
    /\ \E v \in SearchTexts \ {searchValue} : searchValue' = v
    /\ IF listening
       THEN /\ timers' = {t \in timers : t.id # timeout}
                             \cup {[id |-> timerSeq + 1, left |-> Wait]}
            /\ timeout' = timerSeq + 1
            /\ timerSeq' = timerSeq + 1
            /\ debounceLog' = LogKeystroke
       ELSE /\ debounceLog' = [debounceLog EXCEPT !.ignored = TRUE]
            /\ UNCHANGED <<timers, timeout, timerSeq>>
    /\ UNCHANGED <<RULES_DATA, viewerRules, filteredRules, selectedRuleName, currentPage,
                   checkedCategories, checkedPriorities, listening, rulesGrid,
                   pagination, ruleDetail, viewerPc>>
    /\ navigatedTo' = 0
    /\ UNCHANGED parserVars
    /\ UNCHANGED pipeVars

\* TickMs pass while a timer is pending and none is due
Tick ==
    /\ timers # {}
    /\ \A t \in timers : t.left >= TickMs
    /\ timers' = {[id |-> t.id, left |-> t.left - TickMs] : t \in timers}
    /\ debounceLog' = [debounceLog EXCEPT !.elapsed = Min(@ + TickMs, Wait)]
    /\ UNCHANGED <<RULES_DATA, viewerRules, filteredRules, selectedRuleName, currentPage,
                   checkedCategories, checkedPriorities, searchValue, listening,
                   timeout, timerSeq, rulesGrid, pagination, ruleDetail, viewerPc>>
    /\ UNCHANGED navigatedTo
    /\ UNCHANGED parserVars
    /\ UNCHANGED pipeVars

\* mutant of TimerFire: later() clears the timer and does not call func
TimerFireDropsPass ==
    /\ \E t \in timers :
          /\ t.left = 0
          /\ timers' = {u \in timers : u.id # t.id /\ u.id # timeout}
    /\ debounceLog' = [debounceLog EXCEPT !.passes = Min(@ + 1, 2),
                                          !.passAt = debounceLog.elapsed]
    /\ UNCHANGED <<RULES_DATA, viewerRules, filteredRules, selectedRuleName, currentPage,
                   checkedCategories, checkedPriorities, searchValue, listening,
                   timeout, timerSeq, rulesGrid, pagination, ruleDetail, viewerPc>>
    /\ UNCHANGED navigatedTo
    /\ UNCHANGED parserVars
    /\ UNCHANGED pipeVars

\* a due timer runs later(): clearTimeout(timeout); applyFilters()
TimerFire ==
    /\ \E t \in timers :
          /\ t.left = 0
          /\ timers' = {u \in timers : u.id # t.id /\ u.id # timeout}
    /\ searchValue' = searchValue
    /\ applyFilters(checkedCategories, checkedPriorities)
    /\ debounceLog' = [debounceLog EXCEPT !.passes = Min(@ + 1, 2),
                                          !.passAt = debounceLog.elapsed]
    /\ UNCHANGED <<RULES_DATA, selectedRuleName, checkedCategories, checkedPriorities,
                   listening, timeout, timerSeq, ruleDetail, viewerPc>>
    /\ UNCHANGED navigatedTo
    /\ UNCHANGED parserVars
    /\ UNCHANGED pipeVars

\* mutant of PageClickOn: the listener does not test page <= totalPages
PageClickOnUnchecked(i) ==
    LET btn == pagination.items[i]
        page == btn.page
    IN  /\ btn.role \notin {"ellipsis", "info"}
        /\ IF page # 0 /\ page # currentPage /\ page >= 1
           THEN /\ currentPage' = page
                /\ navigatedTo' = page
                /\ renderRules(filteredRules, page, selectedRuleName)
           ELSE UNCHANGED <<currentPage, navigatedTo, rulesGrid, pagination>>

\* the click listener of the i-th item of #pagination.  The ellipsis and the
\* page info are spans and have no listener; the listener of a button tests
\* the page of its data-page itself (0 is falsy)
PageClickOn(i) ==
    LET btn == pagination.items[i]
        page == btn.page
    IN  /\ btn.role \notin {"ellipsis", "info"}
        /\ IF page # 0 /\ page # currentPage /\ page >= 1
              /\ page <= pagination.totalPages
           THEN /\ currentPage' = page
                /\ navigatedTo' = page
                /\ renderRules(filteredRules, page, selectedRuleName)
           ELSE UNCHANGED <<currentPage, navigatedTo, rulesGrid, pagination>>

\* a click on a button of #pagination
PageClick ==
    /\ \E i \in 1..Len(pagination.items) : PageClickOn(i)
    /\ UNCHANGED <<RULES_DATA, viewerRules, filteredRules, selectedRuleName,
                   checkedCategories, checkedPriorities, searchValue, listening,
                   timeout, timers, timerSeq, ruleDetail, viewerPc, debounceLog>>
    /\ UNCHANGED parserVars
    /\ UNCHANGED pipeVars

\* mutant of SelectRule: the name is not kept in selectedRuleName
SelectRuleNoRemember ==
    /\ rulesGrid.kind = "cards"
    /\ \E i \in {j \in 1..Len(rulesGrid.cards) : rulesGrid.cards[j].name \in ClickedNames} :
          LET ruleName == rulesGrid.cards[i].name
              found == \E j \in 1..Len(viewerRules) : Get(viewerRules[j], "name") = ruleName
          IN  /\ selectedRuleName' = selectedRuleName
              /\ IF found
                 THEN /\ rulesGrid' = [rulesGrid EXCEPT !.cards =
                                          [j \in 1..Len(rulesGrid.cards) |->
                                              [rulesGrid.cards[j] EXCEPT !.active =
                                                  rulesGrid.cards[j].name = ruleName]]]
                      /\ ruleDetail' = [kind |-> "rule", name |-> ruleName, tab |-> "desc"]
                 ELSE UNCHANGED <<rulesGrid, ruleDetail>>
    /\ UNCHANGED <<RULES_DATA, viewerRules, filteredRules, currentPage, checkedCategories,
                   checkedPriorities, searchValue, listening, timeout, timers, timerSeq,
                   pagination, viewerPc, debounceLog>>
    /\ UNCHANGED navigatedTo
    /\ UNCHANGED parserVars
    /\ UNCHANGED pipeVars

\* a click on a card of the grid: selectRule(card.dataset.name)
SelectRule ==
    /\ rulesGrid.kind = "cards"
    /\ \E i \in {j \in 1..Len(rulesGrid.cards) : rulesGrid.cards[j].name \in ClickedNames} :
          LET ruleName == rulesGrid.cards[i].name
              found == \E j \in 1..Len(viewerRules) : Get(viewerRules[j], "name") = ruleName
          IN  /\ selectedRuleName' = ruleName
              /\ IF found
                 THEN /\ rulesGrid' = [rulesGrid EXCEPT !.cards =
                                          [j \in 1..Len(rulesGrid.cards) |->
                                              [rulesGrid.cards[j] EXCEPT !.active =
                                                  rulesGrid.cards[j].name = ruleName]]]
                      /\ ruleDetail' = [kind |-> "rule", name |-> ruleName, tab |-> "desc"]
                 ELSE UNCHANGED <<rulesGrid, ruleDetail>>
    /\ UNCHANGED <<RULES_DATA, viewerRules, filteredRules, currentPage, checkedCategories,
                   checkedPriorities, searchValue, listening, timeout, timers, timerSeq,
                   pagination, viewerPc, debounceLog>>
    /\ UNCHANGED navigatedTo
    /\ UNCHANGED parserVars
    /\ UNCHANGED pipeVars

\* a click on a tab of the detail panel: switchTab(tab.dataset.tab)
SwitchTab ==
    /\ ruleDetail.kind = "rule"
    /\ \E tabId \in DetailTabs : ruleDetail' = [ruleDetail EXCEPT !.tab = tabId]
    /\ UNCHANGED <<RULES_DATA, viewerRules, filteredRules, selectedRuleName, currentPage,
                   checkedCategories, checkedPriorities, searchValue, listening,
                   timeout, timers, timerSeq, rulesGrid, pagination, viewerPc,
                   debounceLog>>
    /\ UNCHANGED navigatedTo
    /\ UNCHANGED parserVars
    /\ UNCHANGED pipeVars

ViewerNext ==
    \/ ViewerLoad
    \/ ToggleCategory
    \/ TogglePriority
    \/ Keystroke
    \/ Tick
    \/ TimerFire
    \/ PageClick
    \/ SelectRule
    \/ SwitchTab

ViewerSpec == ViewerInit /\ [][ViewerNext]_vars

\* the events of the search box, the checkboxes, the page controls and the clock
ViewerLiveNext ==
    \/ ViewerLoad
    \/ ToggleCategory
    \/ TogglePriority
    \/ Keystroke
    \/ Tick
    \/ TimerFire
    \/ PageClick

\* the Viewer when time passes and the event loop runs the timers that are due
ViewerLiveSpec ==
    ViewerInit /\ [][ViewerLiveNext]_vars /\ WF_vars(Tick) /\ WF_vars(TimerFire)

(***************************************************************************)
(* Viewer: paging through catalogues of up to MaxPages pages               *)
(***************************************************************************)
\* most pages of a catalogue
MaxPages == 9

\* catalogues that fill their last page, half of it, or hold one record on it
PagerSizes ==
    {0} \cup {RULES_PER_PAGE * p - d : p \in 1..MaxPages, d \in {0, 10, RULES_PER_PAGE - 1}}

PagerInit ==
    /\ ParserIdle
    /\ PipeIdle
    /\ PageStart
    /\ RULES_DATA \in {[defined |-> TRUE, value |-> MakeCatalogue(n)] : n \in PagerSizes}

PagerNext ==
    \/ ViewerLoad
    \/ PageClick

PagerSpec == PagerInit /\ [][PagerNext]_vars

(***************************************************************************)
(* Reference reading of a document: its rule elements as XML defines them  *)
(***************************************************************************)
HasAttr(attrs, key) == \E i \in 1..Len(attrs) : attrs[i].k = key
AttrValue(attrs, key) ==
    IF HasAttr(attrs, key) THEN attrs[FirstFrom(attrs, 1, LAMBDA a : a.k = key)].v ELSE ""

\* the positions of the <rule> tags of a document
RuleTagsOf(src) == {i \in 1..Len(src) : src[i].t = "rule"}

\* the content of the rule element whose tag is at position s
ElementBody(src, s) ==
    IF src[s].self THEN <<>>
    ELSE SubSeq(src, s + 1, FirstFrom(src, s + 1, LAMBDA x : x.t = "/rule") - 1)

\* the names of the rule definitions of a document, in document order
DefinedNames(src) ==
    LET tags == SelectSeq(src, LAMBDA x :
                    /\ x.t = "rule"
                    /\ ~HasAttr(x.attrs, "ref")
                    /\ AttrValue(x.attrs, "name") # "")
    IN  MapSeq(tags, LAMBDA x : AttrValue(x.attrs, "name"))

\* the tag from which the i-th record of parseXmlFile(src, ..) was built
SourceTag(src, i) == src[EmittingMatches(src)[i].s]

\* the catalogue in rules_data.js
Catalogue == ReadRules(rulesData)
BuildDone == run = "none" /\ lastRun = "build"
AnnotateDone == run = "none" /\ lastRun = "annotate"

(***************************************************************************)
(* Claims                                                                  *)
(***************************************************************************)
\* C1: when a record name of the catalogue read by an Annotator run has no
\* entry in TIER_MAP, the run ends with exit status 1, it never reached
\* writeFileSync, and rules_data.js is the text that the run read.
C1_HardGate ==
    (/\ AnnotateDone
     /\ Parses(readData)
     /\ Len(missingFromMap(ReadRules(readData))) > 0)
    => (exitCode = 1 /\ writes = 0 /\ rulesData = readData)

\* C1 witness: a finished Annotator run that read a catalogue in which one
\* name has a TIER_MAP entry and another has none.
C1_Witness ==
    /\ AnnotateDone
    /\ Parses(readData)
    /\ Len(missingFromMap(ReadRules(readData))) > 0
    /\ \E i \in 1..Len(ReadRules(readData)) :
          Get(ReadRules(readData)[i], "name") \in tierMapKeys
    /\ exitCode = 1

\* the names of the records built from rule elements that are not references
NamesFromDefinitions ==
    LET idx == SelectSeq([i \in 1..Len(parsed) |-> i],
                         LAMBDA i : ~HasAttr(SourceTag(xml, i).attrs, "ref"))
    IN  MapSeq(idx, LAMBDA i : Get(parsed[i], "name"))

\* C2: every rule element that has a non-empty name attribute and no ref
\* attribute yields exactly one record of parseXmlFile, in document order,
\* whatever rule elements (definitions or references, block form or
\* self-closing) precede or follow it.
C2_EveryDefinitionOnce ==
    parserPc = "done" => NamesFromDefinitions = DefinedNames(xml)

\* C3: no record of parseXmlFile was built from a rule element whose opening
\* tag carries a ref attribute, and a document whose rule elements are all
\* references yields no record.
C3_NoRecordFromReference ==
    parserPc = "done" =>
        /\ \A i \in 1..Len(parsed) : ~HasAttr(SourceTag(xml, i).attrs, "ref")
        /\ ((\A t \in RuleTagsOf(xml) : HasAttr(xml[t].attrs, "ref")) => parsed = <<>>)

\* C4: the priority of every record is an integer in 1..5, and it is 3 when
\* the rule has no <priority> or its text holds no digit.
C4_PriorityRange ==
    parserPc = "done" =>
        \A i \in 1..Len(parsed) :
            LET body == ElementBody(xml, EmittingMatches(xml)[i].s)
                p == FirstFrom(body, 1, LAMBDA x : x.t = "leaf" /\ x.tag = "priority")
            IN  /\ Get(parsed[i], "priority") \in 1..5
                /\ (p = 0 \/ \A c \in 1..Len(body[p].text) : ~IsDigit(body[p].text[c], 10))
                       => Get(parsed[i], "priority") = 3

\* C5: no two records of the catalogue written by the Catalogue Builder have
\* the same name.
C5_UniqueNames ==
    BuildDone =>
        \A i, j \in 1..Len(Catalogue) :
            i # j => Get(Catalogue[i], "name") # Get(Catalogue[j], "name")

\* the sort key of a record: category, then priority, then name
KeyLeq(a, b) ==
    LET ca == IndexOf(CollationOrder, Get(a, "category"))
        cb == IndexOf(CollationOrder, Get(b, "category"))
        na == IndexOf(CollationOrder, Get(a, "name"))
        nb == IndexOf(CollationOrder, Get(b, "name"))
    IN  \/ ca < cb
        \/ ca = cb /\ Get(a, "priority") < Get(b, "priority")
        \/ ca = cb /\ Get(a, "priority") = Get(b, "priority") /\ na <= nb

Qualifies(x) ==
    /\ x.t = "property"
    /\ HasAttr(x.attrs, "name")
    /\ AttrValue(x.attrs, "name") \notin {"", "xpath", "version"}

\* C7: a record has the key properties if and only if the body of its rule
\* declares a property that has a name other than xpath and version, and the
\* value of the key is then a non-empty sequence.
C7_PropertiesIff ==
    parserPc = "done" =>
        \A i \in 1..Len(parsed) :
            LET body == ElementBody(xml, EmittingMatches(xml)[i].s)
            IN  /\ Has(parsed[i], "properties")
                      <=> \E p \in 1..Len(body) : Qualifies(body[p])
                /\ Has(parsed[i], "properties")
                      => Len(Get(parsed[i], "properties")) > 0

\* C8: an Annotator run on the rules_data.js that a successful Annotator run
\* wrote exits with status 0 and writes the text it read: no record gains,
\* loses or moves a field, and the record order is the same.
C8_AnnotateIdempotent ==
    (AnnotateDone /\ readWriter = "annotate")
    => (exitCode = 0 /\ writes = 1 /\ rulesData = readData)

\* C8 witness: a second successful Annotator run over a catalogue of two
\* annotated records.
C8_Witness ==
    /\ AnnotateDone
    /\ readWriter = "annotate"
    /\ exitCode = 0
    /\ Len(rules) >= 2
    /\ \A i \in 1..Len(ReadRules(readData)) : Has(ReadRules(readData)[i], "tier")

\* C9: the record sequence the Annotator reads back from the text the
\* Catalogue Builder wrote is the in-memory sequence that was serialized:
\* the same length, order and field values.
C9_RoundTrip ==
    BuildDone => ReadRules(rulesData) = allRules

\* C10: after a successful Annotator run every record of the written
\* catalogue has the tier and claude_comment of the TIER_MAP entry of its
\* name, and its tier is 1, 2, 3 or "skip".
C10_TierFromTable ==
    (AnnotateDone /\ exitCode = 0) =>
        \A i \in 1..Len(Catalogue) :
            LET r == Catalogue[i]
            IN  /\ Has(r, "tier")
                /\ Has(r, "claude_comment")
                /\ Get(r, "tier") = TIER_MAP[Get(r, "name")].tier
                /\ Get(r, "claude_comment") = TIER_MAP[Get(r, "name")].claude_comment
                /\ Get(r, "tier") \in {Tier(1), Tier(2), Tier(3), TierSkip}

\* C10 witness: a successful Annotator run wrote records of two tiers.
C10_Witness ==
    /\ AnnotateDone
    /\ exitCode = 0
    /\ \E i, j \in 1..Len(Catalogue) :
          Get(Catalogue[i], "tier") # Get(Catalogue[j], "tier")

\* a record without the two fields the Annotator sets
WithoutTier(r) == SelectSeq(r, LAMBDA f : f.k \notin {"tier", "claude_comment"})

\* C11: after a successful Annotator run the written catalogue has as many
\* records as the catalogue that was read, in the same order, and every
\* record has the same fields with the same values in the same order, tier
\* and claude_comment apart.
C11_AnnotatorFrame ==
    (AnnotateDone /\ exitCode = 0) =>
        /\ Len(Catalogue) = Len(ReadRules(readData))
        /\ \A i \in 1..Len(Catalogue) :
              WithoutTier(Catalogue[i]) = WithoutTier(ReadRules(readData)[i])

\* C11 witness: a successful Annotator run over two records that differ in a
\* field other than tier and claude_comment, one of them of tier "skip".
C11_Witness ==
    /\ AnnotateDone
    /\ exitCode = 0
    /\ Len(Catalogue) >= 2
    /\ WithoutTier(Catalogue[1]) # WithoutTier(Catalogue[2])
    /\ \E i \in 1..Len(Catalogue) : Get(Catalogue[i], "tier") = TierSkip

\* the files of the directory that CATEGORY_MAP knows
RecognizedFiles == {f \in DOMAIN resources : EndsWithXml(f) /\ f \in DOMAIN CATEGORY_MAP}

\* the name attributes of the rule elements of a document
RuleNamesOf(src) == {AttrValue(src[t].attrs, "name") : t \in RuleTagsOf(src)}

\* the number of records of recs that have category c
CountIn(recs, c) == Len(SelectSeq(recs, LAMBDA r : Get(r, "category") = c))

\* C16: every record of the catalogue the Catalogue Builder wrote has a
\* non-empty name, and its category is the CATEGORY_MAP value of a file of the
\* directory that holds a rule element of that name; each recognized file
\* contributes as many records of its category as parseXmlFile returns for it.
C16_NameAndCategory ==
    BuildDone =>
        /\ \A i \in 1..Len(Catalogue) :
              /\ Get(Catalogue[i], "name") # ""
              /\ \E f \in RecognizedFiles :
                    /\ Get(Catalogue[i], "category") = CATEGORY_MAP[f]
                    /\ Get(Catalogue[i], "name") \in RuleNamesOf(resources[f])
        /\ \A f \in RecognizedFiles :
              CountIn(Catalogue, CATEGORY_MAP[f])
                  = Len(parseXmlFile(resources[f], CATEGORY_MAP[f]))

\* C16 witness: a written catalogue with records of both recognized files,
\* built from a directory in which a rule element has no name.
C16_Witness ==
    /\ BuildDone
    /\ \A f \in RecognizedFiles : CountIn(Catalogue, CATEGORY_MAP[f]) > 0
    /\ \E f \in RecognizedFiles : "" \in RuleNamesOf(resources[f])

\* C17: when every record name of the catalogue an Annotator run read has an
\* entry in TIER_MAP, the run exits with status 0 and writes the annotated
\* catalogue once, whatever entries of TIER_MAP have no record, and no
\* record of the written catalogue carries the name of such an entry.
C17_StaleNotFatal ==
    (/\ AnnotateDone
     /\ Parses(readData)
     /\ Len(missingFromMap(ReadRules(readData))) = 0)
    => /\ exitCode = 0
       /\ writes = 1
       /\ rulesData = ModuleText(AnnotateAll(ReadRules(readData)))
       /\ \A n \in extraInMap(ReadRules(readData)) :
             \A i \in 1..Len(Catalogue) : Get(Catalogue[i], "name") # n

\* C17 witness: a successful Annotator run over a non-empty catalogue while
\* TIER_MAP holds entries without a record.
C17_Witness ==
    /\ AnnotateDone
    /\ Parses(readData)
    /\ Len(ReadRules(readData)) > 0
    /\ Len(missingFromMap(ReadRules(readData))) = 0
    /\ extraInMap(ReadRules(readData)) # {}
    /\ exitCode = 0

\* the records of the recognized files, read in the order of CATEGORY_MAP
ExpectedRecords ==
    LET order == <<"bestpractices_ko.xml", "codestyle_ko.xml", "design_ko.xml",
                   "documentation_ko.xml", "errorprone_ko.xml",
                   "multithreading_ko.xml", "performance_ko.xml", "security_ko.xml">>
        present == SelectSeq(order, LAMBDA f : f \in RecognizedFiles)
    IN  Concat(MapSeq(present, LAMBDA f : parseXmlFile(resources[f], CATEGORY_MAP[f])))

\* the number of elements of s that equal x
Occurrences(s, x) == Cardinality({i \in 1..Len(s) : s[i] = x})

\* s and t hold the same elements the same number of times
SameBag(s, t) ==
    /\ Len(s) = Len(t)
    /\ \A i \in 1..Len(s) : Occurrences(s, s[i]) = Occurrences(t, s[i])

\* the *.xml files of the directory that CATEGORY_MAP does not know
UnknownFiles == {f \in DOMAIN resources : EndsWithXml(f) /\ f \notin DOMAIN CATEGORY_MAP}

\* C18: a build over a directory that holds an XML file unknown to
\* CATEGORY_MAP ends with exit status 0 and one write; the written catalogue
\* holds exactly the records of the recognized files and no record of the
\* unknown file.
C18_UnknownFileSkipped ==
    (BuildDone /\ UnknownFiles # {}) =>
        /\ exitCode = 0
        /\ writes = 1
        /\ rulesData = ModuleText(allRules)
        /\ SameBag(allRules, ExpectedRecords)
        /\ \A f \in UnknownFiles : \A i \in 1..Len(allRules) :
              Get(allRules[i], "name") \notin RuleNamesOf(resources[f])

\* C18 witness: a finished build over a directory with an unknown XML file
\* that holds a rule definition, and a recognized file that yields a record.
C18_Witness ==
    /\ BuildDone
    /\ \E f \in UnknownFiles : RuleNamesOf(resources[f]) # {}
    /\ Len(allRules) > 0

\* C19: the record sequence the Catalogue Builder writes is a function of
\* the files of the directory alone: whatever order the directory listing
\* had, it is the sorted sequence of the records of the recognized files.
C19_BuildDeterministic ==
    BuildDone =>
        /\ allRules = SortRules(ExpectedRecords)
        /\ rulesData = ModuleText(SortRules(ExpectedRecords))

\* C19 witness: a finished build whose listing did not return the files in
\* the order of CATEGORY_MAP and whose two recognized files both yield records.
C19_Witness ==
    /\ BuildDone
    /\ \E i, j \in 1..Len(listing) :
          /\ i < j
          /\ listing[i] = "design_ko.xml"
          /\ listing[j] = "bestpractices_ko.xml"
    /\ \A f \in RecognizedFiles : CountIn(allRules, CATEGORY_MAP[f]) > 0

\* a filter pass: applyFilters run by the debounce timer or by a checkbox
\* change that has a listener
FilterPass == TimerFire \/ (listening /\ (ToggleCategory \/ TogglePriority))

\* text contains part, case-insensitively
ContainsIgnoringCase(text, part) == includes(toLowerCase(text), toLowerCase(part))

\* the records of rs, in order, of a checked category (any when none is
\* checked), of a checked priority (any when none is checked), and with text
\* in the name, message, description or categoryName (any when text is empty)
Selected(rs, categories, priorities, text) ==
    SelectSeq(rs, LAMBDA r :
        /\ categories # {} => \E c \in categories : Get(r, "category") = c
        /\ priorities # {} => \E p \in priorities : String(Get(r, "priority")) = p
        /\ text # <<>> =>
              \E f \in {"name", "message", "description", "categoryName"} :
                  ContainsIgnoringCase(Get(r, f), text))

\* C12 as stated: after every filter pass filteredRules is the subsequence of
\* rules of the checked categories and priorities whose name, message,
\* description or categoryName contains the text of the search box
\* case-insensitively (or that text is empty).
C12_FilterResultAsTyped ==
    [][FilterPass =>
          filteredRules' = Selected(viewerRules', checkedCategories',
                                    checkedPriorities', searchValue')]_vars

\* C12 amended: after every filter pass filteredRules is the subsequence of
\* rules, in catalogue order, of the checked categories and priorities whose
\* name, message, description or categoryName contains, case-insensitively,
\* the text of the search box with its leading and trailing white space
\* removed (or that trimmed text is empty).
C12_FilterResult ==
    [][FilterPass =>
          filteredRules' = Selected(viewerRules', checkedCategories',
                                    checkedPriorities', Trim(searchValue'))]_vars

\* C12 witness: after a debounced pass with a search text in upper case and
\* a category checked, filteredRules is a non-empty proper part of rules with
\* a record not found by its message and another not found by its description.
C12_Witness ==
    /\ viewerPc = "ready"
    /\ debounceLog.passes = 1
    /\ timers = {}
    /\ searchValue = <<"A">>
    /\ checkedCategories = {"design"}
    /\ Len(filteredRules) > 0
    /\ Len(filteredRules) < Len(viewerRules)
    /\ \E i \in 1..Len(filteredRules) :
          ~ContainsIgnoringCase(Get(filteredRules[i], "message"), searchValue)
    /\ \E i \in 1..Len(filteredRules) :
          ~ContainsIgnoringCase(Get(filteredRules[i], "description"), searchValue)

\* the names of the cards of the grid
CardNames == [i \in 1..Len(rulesGrid.cards) |-> rulesGrid.cards[i].name]

\* C13: after a successful load, with n = |filteredRules| > 0 records and
\* pages = ceil(n / 20), currentPage is a page p in 1..pages and the grid
\* shows exactly the records at positions (p-1)*20+1 .. min(p*20, n) of
\* filteredRules, in order: 20 records on every page but the last, at least
\* one on the last; every enabled page control leads to a page in 1..pages;
\* with n = 0 the grid shows no card and there is no page control.
C13_PagePartition ==
    viewerPc = "ready" =>
        LET n == Len(filteredRules)
            pages == (n + RULES_PER_PAGE - 1) \div RULES_PER_PAGE
            lo == ((currentPage - 1) * RULES_PER_PAGE) + 1
            hi == IF currentPage * RULES_PER_PAGE < n
                  THEN currentPage * RULES_PER_PAGE ELSE n
        IN  IF n = 0
            THEN rulesGrid.kind = "noResults" /\ pagination.items = <<>>
            ELSE /\ currentPage \in 1..pages
                 /\ rulesGrid.kind = "cards"
                 /\ CardNames = [i \in 1..(hi - lo + 1) |->
                                    Get(filteredRules[lo + i - 1], "name")]
                 /\ currentPage < pages => Len(CardNames) = RULES_PER_PAGE
                 /\ Len(CardNames) > 0
                 /\ \A i \in 1..Len(pagination.items) :
                       ~pagination.items[i].disabled
                           => pagination.items[i].page \in 1..pages

\* C13 witness: the grid shows the last of at least three pages, which holds
\* fewer than 20 records.
C13_Witness ==
    /\ viewerPc = "ready"
    /\ currentPage >= 3
    /\ currentPage = (Len(filteredRules) + RULES_PER_PAGE - 1) \div RULES_PER_PAGE
    /\ rulesGrid.kind = "cards"
    /\ Len(rulesGrid.cards) < RULES_PER_PAGE

\* C14: at most one debounce timer is pending, and it is the one the last
\* keystroke set (Wait ms after that keystroke); in a burst of keystrokes
\* each less than Wait ms after the previous one no debounced filter pass
\* runs while the timer is pending, and once it is no longer pending exactly
\* one pass has run, Wait ms after the last keystroke.
C14_DebounceCoalesces ==
    /\ Cardinality(timers) <= 1
    /\ \A t \in timers : t.id = timeout /\ t.left = Wait - debounceLog.elapsed
    /\ (debounceLog.keys > 0 /\ debounceLog.inTime) =>
          IF timers # {} THEN debounceLog.passes = 0
          ELSE debounceLog.passes = 1 /\ debounceLog.passAt = Wait

\* C14 witness: a burst of at least two keystrokes, each less than Wait ms
\* after the previous one, has ended in its one filter pass.
C14_Witness ==
    /\ debounceLog.keys >= 2
    /\ debounceLog.inTime
    /\ debounceLog.passes = 1
    /\ timers = {}

\* C15: after a successful load rules is the loaded catalogue, whatever
\* filter passes, page changes, rule selections and tab switches followed.
C15_RulesReadOnly ==
    viewerPc = "ready" => (RULES_DATA.defined /\ viewerRules = RULES_DATA.value)

\* C15 witness: after a filter pass that kept a part of the records, a page
\* change, a rule selection and a tab switch.
C15_Witness ==
    /\ viewerPc = "ready"
    /\ Len(viewerRules) > 0
    /\ Len(filteredRules) < Len(viewerRules)
    /\ currentPage > 1
    /\ selectedRuleName # NullName
    /\ ruleDetail.tab = "example"

\* C20: when RULES_DATA is not defined at load time the grid shows the
\* failure message, rules and filteredRules stay empty, and no later checkbox
\* change or search keystroke goes without a filter pass.
C20_LoadFailure ==
    viewerPc = "failed" =>
        /\ rulesGrid.kind = "failed"
        /\ viewerRules = <<>>
        /\ filteredRules = <<>>
        /\ ~debounceLog.ignored

BuildAborted == run = "none" /\ lastRun = "build aborted"

\* C21: a Catalogue Builder run writes rules_data.js at most once; while it
\* still has files to visit it has written nothing and the file is the text
\* the run found; a run that ended on a failed read has exit status 1, wrote
\* nothing and left the file as it found it; a run that wrote has read and
\* parsed every recognized file.
C21_WriteAfterAllReads ==
    /\ run = "build" => (writes = 0 /\ rulesData = readData)
    /\ BuildAborted => (exitCode = 1 /\ writes = 0 /\ rulesData = readData)
    /\ BuildDone =>
          /\ writes = 1
          /\ \A f \in RecognizedFiles : Readable(resources[f])
          /\ Len(allRules) = Len(ExpectedRecords)

\* C21 witness: a run ended on a failed read after it had parsed a file that
\* yields records, while a rules_data.js exists.
C21_Witness ==
    /\ BuildAborted
    /\ Len(allRules) > 0
    /\ rulesData # NoFile

\* the fields of a record that hold the text of an attribute of the rule tag
AttrFields ==
    { <<"since", "since">>, <<"message", "message">>, <<"class", "ruleClass">>,
      <<"externalInfoUrl", "externalInfoUrl">> }

HasLeaf(body, tag) == \E j \in 1..Len(body) : body[j].t = "leaf" /\ body[j].tag = tag

\* C22: for every input text, also one whose rule blocks lack a description,
\* a priority, examples or properties and one whose closing tags are missing,
\* the Rule Parser ends with a (possibly empty) record sequence, one record
\* per matched definition, in which an attribute field whose attribute is
\* missing is the empty string, a missing description is the empty text, a
\* missing priority is 3, missing examples are the empty sequence and missing
\* properties leave no properties field.
C22_ParseLeniency ==
    /\ parserPc \in {"idle", "input", "done"}
    /\ parserPc = "done" =>
          /\ Len(parsed) = Len(EmittingMatches(xml))
          /\ (RuleTagsOf(xml) = {} => parsed = <<>>)
          /\ \A i \in 1..Len(parsed) :
                LET m == EmittingMatches(xml)[i]
                    body == SubSeq(xml, m.s + 1, m.e - 1)
                IN  /\ \A f \in AttrFields :
                          ~HasAttr(xml[m.s].attrs, f[1]) => Get(parsed[i], f[2]) = ""
                    /\ ~HasLeaf(body, "description") => Get(parsed[i], "description") = <<>>
                    /\ ~HasLeaf(body, "priority") => Get(parsed[i], "priority") = 3
                    /\ ~HasLeaf(body, "example") => Get(parsed[i], "examples") = <<>>
                    /\ (\A j \in 1..Len(body) : body[j].t # "property")
                          => ~Has(parsed[i], "properties")

\* C22 witness: the parser has returned a record for a rule whose child
\* elements all lack their closing tags.
C22_Witness ==
    /\ parserPc = "done"
    /\ Len(parsed) = 1
    /\ \E j \in 1..Len(xml) : xml[j].t = "open" /\ xml[j].tag = "priority"
    /\ Get(parsed[1], "priority") = 3
    /\ Get(parsed[1], "description") = <<>>
    /\ Get(parsed[1], "examples") = <<>>

\* the positions in the body of its property tags
PropPositions(body) == {p \in 1..Len(body) : body[p].t = "property"}

\* the descriptor of the property tag at position p, from that tag alone: its
\* name, its value attribute or else its nested <value>, its description
\* attribute or else the empty string
OwnDescriptor(body, p) ==
    LET x == body[p]
        close == IF x.self THEN 0
                 ELSE FirstFrom(body, p + 1, LAMBDA y : y.t = "/property")
        inner == IF close = 0 THEN <<>> ELSE SubSeq(body, p + 1, close - 1)
        valEl == FirstFrom(inner, 1, LAMBDA y : y.t = "leaf" /\ y.tag = "value")
    IN  << [k |-> "name", v |-> AttrValue(x.attrs, "name")],
           [k |-> "defaultValue",
            v |-> IF HasAttr(x.attrs, "value") THEN AsText(AttrValue(x.attrs, "value"))
                  ELSE IF valEl # 0 THEN Trim(stripCdata(inner[valEl].text))
                  ELSE <<>>],
           [k |-> "description",
            v |-> IF HasAttr(x.attrs, "description")
                  THEN AttrValue(x.attrs, "description") ELSE ""] >>

RECURSIVE OwnDescriptors(_, _)
\* the descriptors of the documented property tags from position p on
OwnDescriptors(body, p) ==
    IF p > Len(body) THEN <<>>
    ELSE IF /\ body[p].t = "property"
            /\ HasAttr(body[p].attrs, "name")
            /\ AttrValue(body[p].attrs, "name") \notin {"xpath", "version"}
         THEN <<OwnDescriptor(body, p)>> \o OwnDescriptors(body, p + 1)
         ELSE OwnDescriptors(body, p + 1)

\* the properties of a record, the empty sequence when it has no such key
PropertiesOf(rec) == IF Has(rec, "properties") THEN Get(rec, "properties") ELSE <<>>

\* C23: the properties of a record are exactly one descriptor per property
\* tag of the rule body whose name is not xpath or version, in document
\* order, each with the name, default value and description of its own tag,
\* for every mix of self-closing and block-form property tags.
C23_OneDescriptorPerProperty ==
    parserPc = "done" =>
        \A i \in 1..Len(parsed) :
            LET m == EmittingMatches(xml)[i]
                body == SubSeq(xml, m.s + 1, m.e - 1)
            IN  (\A p \in PropPositions(body) :
                     body[p].self \/ \E q \in p + 1..Len(body) : body[q].t = "/property")
                    => PropertiesOf(parsed[i]) = OwnDescriptors(body, 1)

\* the position in #pagination of the first control of a role (0: none)
ControlOf(role) == FirstFrom(pagination.items, 1, LAMBDA it : it.role = role)

\* C24: in every state of the Viewer 1 <= currentPage <= max(1, number of
\* pages of filteredRules); every filter pass sets currentPage to 1; a click
\* on a page control leaves currentPage alone or sets it to a page in
\* 1..number of pages; a click on the previous control at page 1 and on the
\* next control at the last page changes nothing.
C24_PageInvariant ==
    /\ [](1 <= currentPage /\ currentPage <= Max(1, TotalPages(filteredRules)))
    /\ [][FilterPass => currentPage' = 1]_vars
    /\ [][PageClick => (currentPage' = currentPage
                           \/ currentPage' \in 1..TotalPages(filteredRules))]_vars
    /\ [][(/\ pagination.items # <<>>
           /\ \/ currentPage = 1 /\ PageClickOn(ControlOf("prev"))
              \/ currentPage = pagination.totalPages /\ PageClickOn(ControlOf("next")))
             => UNCHANGED <<currentPage, rulesGrid, pagination>>]_vars

\* C24 witness: the last of three pages is shown, reached by a page click.
C24_Witness ==
    /\ currentPage = 3
    /\ TotalPages(filteredRules) = 3
    /\ pagination.items # <<>>
    /\ pagination.items[ControlOf("next")].disabled

\* C26: after the user has navigated to a page p, currentPage is p until the
\* next keystroke, checkbox change or page click: no filter pass resets the
\* page without a user input that came after the navigation.
C26_NoStalePageReset == navigatedTo # 0 => currentPage = navigatedTo

\* C28: in every state of the Viewer after a successful load in which no
\* debounce timer is pending, filteredRules is the subsequence of rules that
\* matches the checked categories, the checked priorities and the text of the
\* search box (matched as the filter matches it, white space at its ends
\* removed); with nothing checked and an empty search box it is rules.
C28_FilterConsistency ==
    (viewerPc = "ready" /\ timers = {}) =>
        /\ filteredRules = Selected(viewerRules, checkedCategories, checkedPriorities,
                                    Trim(searchValue))
        /\ (checkedCategories = {} /\ checkedPriorities = {} /\ searchValue = <<>>)
              => filteredRules = viewerRules

\* C28 witness: no timer is pending after a search text was typed and a
\* category and a priority were checked, and the filter keeps some records
\* and drops others.
C28_Witness ==
    /\ viewerPc = "ready"
    /\ timers = {}
    /\ searchValue = <<"A">>
    /\ checkedCategories # {}
    /\ checkedPriorities # {}
    /\ Len(filteredRules) > 0
    /\ Len(filteredRules) < Len(viewerRules)

\* the names of the records of a sequence
NamesOf(rs) == {Get(rs[i], "name") : i \in 1..Len(rs)}

\* C29: in every state of the Viewer selectedRuleName is null and the detail
\* panel is unset, or it is the name of a record of rules and the detail
\* panel shows the record of that name, and the cards of the grid are marked
\* active exactly for that name; filter passes and page changes leave
\* selectedRuleName and the detail panel unchanged, also when the selected
\* record is no longer in filteredRules or not on the current page.
C29_SelectionInvariant ==
    /\ [](\/ selectedRuleName = NullName /\ ruleDetail.kind = "blank"
          \/ /\ selectedRuleName \in NamesOf(viewerRules)
             /\ ruleDetail.kind = "rule"
             /\ ruleDetail.name = selectedRuleName)
    /\ [](\A i \in 1..Len(rulesGrid.cards) :
              rulesGrid.cards[i].active <=> rulesGrid.cards[i].name = selectedRuleName)
    /\ [][(FilterPass \/ PageClick) =>
              (selectedRuleName' = selectedRuleName /\ ruleDetail' = ruleDetail)]_vars

\* C29 witness: a rule is selected and shown in the detail panel while a
\* filter pass has removed its record from filteredRules.
C29_Witness ==
    /\ selectedRuleName # NullName
    /\ selectedRuleName \notin NamesOf(filteredRules)
    /\ ruleDetail.kind = "rule"
    /\ Len(filteredRules) > 0

\* the positions in #pagination of the controls of a role
ControlsOf(role) == {i \in 1..Len(pagination.items) : pagination.items[i].role = role}

\* the pages of the numbered buttons, in the order shown
NumberedPages ==
    LET nums == SelectSeq(pagination.items, LAMBDA it : it.role = "number")
    IN  [i \in 1..Len(nums) |-> nums[i].page]

\* C25: after a load, when filteredRules has more than one page, the numbered
\* page buttons are the pages startPage..endPage in order, with
\* 1 <= startPage <= currentPage <= endPage <= totalPages and exactly
\* min(5, totalPages) buttons; a first-page button is shown iff startPage > 1
\* and a last-page button iff endPage < totalPages; an ellipsis stands
\* between the first-page button and the window iff startPage > 2 and between
\* the window and the last-page button iff endPage < totalPages - 1; with at
\* most one page there is no control.
C25_PageWindow ==
    viewerPc = "ready" =>
        LET totalPages == TotalPages(filteredRules)
            n == Len(NumberedPages)
            startPage == NumberedPages[1]
            endPage == NumberedPages[n]
            firstNumber == CHOOSE i \in ControlsOf("number") :
                               \A j \in ControlsOf("number") : i <= j
            leading == {i \in ControlsOf("ellipsis") : i < firstNumber}
            trailing == {i \in ControlsOf("ellipsis") : i > firstNumber}
        IN  IF totalPages <= 1 THEN pagination.items = <<>>
            ELSE /\ n = Min(maxVisiblePages, totalPages)
                 /\ \A i \in 1..n : NumberedPages[i] = startPage + i - 1
                 /\ 1 <= startPage /\ startPage <= currentPage
                 /\ currentPage <= endPage /\ endPage <= totalPages
                 /\ Cardinality(ControlsOf("first")) = (IF startPage > 1 THEN 1 ELSE 0)
                 /\ Cardinality(ControlsOf("last")) = (IF endPage < totalPages THEN 1 ELSE 0)
                 /\ \A i \in ControlsOf("first") :
                        pagination.items[i].page = 1 /\ i < firstNumber
                 /\ \A i \in ControlsOf("last") :
                        pagination.items[i].page = totalPages /\ i > firstNumber + n - 1
                 /\ Cardinality(leading) = (IF startPage > 2 THEN 1 ELSE 0)
                 /\ Cardinality(trailing) = (IF endPage < totalPages - 1 THEN 1 ELSE 0)

\* C25 witness: a middle page of a catalogue of more than seven pages is
\* shown: the window is cut off from the first and the last page by an
\* ellipsis on either side.
C25_Witness ==
    /\ viewerPc = "ready"
    /\ TotalPages(filteredRules) > 7
    /\ Cardinality(ControlsOf("ellipsis")) = 2
    /\ NumberedPages[1] = currentPage - 2

\* filteredRules is what the filter selects for the controls as they are now
Reflects ==
    filteredRules = Selected(viewerRules, checkedCategories, checkedPriorities,
                             Trim(searchValue))

\* C27: when time passes and due timers run, every keystroke in the search
\* box that armed the debounce timer is followed by a state in which no timer
\* is pending and filteredRules reflects the text that is then in the box,
\* whatever keystrokes, checkbox changes and page clicks are interleaved; and
\* from then on, as long as no timer is pending, filteredRules keeps
\* reflecting the text in the box.
C27_SearchLiveness ==
    /\ (listening /\ timers # {}) ~> (timers = {} /\ Reflects)
    /\ [][(timers = {} /\ Reflects /\ timers' = {}) => Reflects']_vars

\* C27 witness: two keystrokes were typed, the timer has fired and no timer
\* is pending, and filteredRules holds the records that contain the text of
\* the box, fewer than all.
C27_Witness ==
    /\ viewerPc = "ready"
    /\ timerSeq >= 2
    /\ debounceLog.passes >= 1
    /\ timers = {}
    /\ Trim(searchValue) # <<>>
    /\ Reflects
    /\ Len(filteredRules) < Len(viewerRules)

\* every record of the catalogue file has both annotation fields / has neither
AllAnnotated == \A i \in 1..Len(Catalogue) :
                    Has(Catalogue[i], "tier") /\ Has(Catalogue[i], "claude_comment")
NoneAnnotated == \A i \in 1..Len(Catalogue) :
                    ~Has(Catalogue[i], "tier") /\ ~Has(Catalogue[i], "claude_comment")

\* C30: over any sequence of Catalogue Builder and Tier Annotator runs on one
\* catalogue file: when the last run that wrote the file was an Annotator run
\* every record has tier and claude_comment; when it was a Builder run no
\* record has either, and a finished Builder run is the last writer; a
\* successful Annotator run is the last writer; a failed Annotator run and an
\* aborted Builder run leave the file, and its last writer, as they found it.
C30_Lifecycle ==
    /\ writer = "annotate" => (Parses(rulesData) /\ AllAnnotated)
    /\ writer = "build" => (Parses(rulesData) /\ NoneAnnotated)
    /\ BuildDone => (writer = "build" /\ writes = 1)
    /\ (AnnotateDone /\ exitCode = 0) => (writer = "annotate" /\ writes = 1)
    /\ (AnnotateDone /\ exitCode # 0) =>
          (rulesData = readData /\ writer = readWriter /\ writes = 0)
    /\ BuildAborted => (rulesData = readData /\ writer = readWriter)

\* C30 witness: a Builder run has rewritten a file that a successful
\* Annotator run had written, and its records carry neither field.
C30_Witness ==
    /\ BuildDone
    /\ readWriter = "annotate"
    /\ Len(Catalogue) > 0
    /\ NoneAnnotated
    /\ \E i \in 1..Len(ReadRules(readData)) : Has(ReadRules(readData)[i], "tier")

====
